---- MODULE Spec2Model ----
(***************************************************************************)
(* A model of gitingest_lite: the directory scan of ingest_from_query.py,  *)
(* the renderers that turn the scanned tree into the digest, the URL       *)
(* parser of parse_query.py and the ingest pipelines of ingest.py and      *)
(* __main__.py with their cleanup of the temporary clone.                  *)
(*                                                                         *)
(* A Python str is modelled as a sequence of one-character strings, so     *)
(* that str.replace, lstrip, split, lower, fnmatch and the os.path         *)
(* functions are computed character by character as the interpreter does.  *)
(***************************************************************************)
EXTENDS Integers, Sequences, FiniteSets, TLC

(***************************************************************************)
(* Characters                                                              *)
(***************************************************************************)
SEP == "/"
NL == "\n"
\* The box-drawing glyphs of _create_tree_structure, one token per glyph.
BOX_UR == "BOX_UP_RIGHT"      \* U+2514
BOX_VR == "BOX_VERT_RIGHT"    \* U+251C
BOX_H  == "BOX_HORIZ"         \* U+2500
BOX_V  == "BOX_VERT"          \* U+2502

Digits == {"0", "1", "2", "3", "4", "5", "6", "7", "8", "9"}
Upper == {"A", "B", "C", "D", "E", "F", "G", "H", "I", "J", "K", "L", "M",
          "N", "O", "P", "Q", "R", "S", "T", "U", "V", "W", "X", "Y", "Z"}
Lower == {"a", "b", "c", "d", "e", "f", "g", "h", "i", "j", "k", "l", "m",
          "n", "o", "p", "q", "r", "s", "t", "u", "v", "w", "x", "y", "z"}

\* Code points in increasing order (the order of Python's sorted on str).
CodeOrder ==
  << " ", "*", "+", "-", ".", "/",
     "0", "1", "2", "3", "4", "5", "6", "7", "8", "9", ":", "=", "?",
     "A", "B", "C", "D", "E", "F", "G", "H", "I", "J", "K", "L", "M",
     "N", "O", "P", "Q", "R", "S", "T", "U", "V", "W", "X", "Y", "Z",
     "\\", "_",
     "a", "b", "c", "d", "e", "f", "g", "h", "i", "j", "k", "l", "m",
     "n", "o", "p", "q", "r", "s", "t", "u", "v", "w", "x", "y", "z" >>

Ord(c) == CHOOSE i \in 1..Len(CodeOrder) : CodeOrder[i] = c

UpperSeq == << "A", "B", "C", "D", "E", "F", "G", "H", "I", "J", "K", "L", "M",
               "N", "O", "P", "Q", "R", "S", "T", "U", "V", "W", "X", "Y", "Z" >>
LowerSeq == << "a", "b", "c", "d", "e", "f", "g", "h", "i", "j", "k", "l", "m",
               "n", "o", "p", "q", "r", "s", "t", "u", "v", "w", "x", "y", "z" >>

\* str.lower on one character.
LowerChar(c) ==
  IF c \in Upper THEN LowerSeq[CHOOSE i \in 1..26 : UpperSeq[i] = c] ELSE c

(***************************************************************************)
(* str methods                                                             *)
(***************************************************************************)
StrLower(s) == [i \in 1..Len(s) |-> LowerChar(s[i])]

StartsWith(s, p) == Len(p) <= Len(s) /\ SubSeq(s, 1, Len(p)) = p

EndsWith(s, p) == Len(p) <= Len(s) /\ SubSeq(s, Len(s) - Len(p) + 1, Len(s)) = p

\* str.replace(old, new): every non-overlapping occurrence, left to right.
RECURSIVE Replace(_, _, _)
Replace(s, old, new) ==
  IF old = <<>> \/ s = <<>> THEN s
  ELSE IF StartsWith(s, old)
       THEN new \o Replace(SubSeq(s, Len(old) + 1, Len(s)), old, new)
       ELSE <<Head(s)>> \o Replace(Tail(s), old, new)

\* str.lstrip(chars) and str.rstrip(chars), chars a set of characters.
RECURSIVE LStrip(_, _)
LStrip(s, chars) ==
  IF s # <<>> /\ Head(s) \in chars THEN LStrip(Tail(s), chars) ELSE s

RECURSIVE RStrip(_, _)
RStrip(s, chars) ==
  IF s # <<>> /\ s[Len(s)] \in chars THEN RStrip(SubSeq(s, 1, Len(s) - 1), chars) ELSE s

Strip(s, chars) == LStrip(RStrip(s, chars), chars)

\* str.split(c) on a one-character separator: "".split("/") is [""].
RECURSIVE Split(_, _)
Split(s, c) ==
  IF \A i \in 1..Len(s) : s[i] # c THEN <<s>>
  ELSE LET i == CHOOSE k \in 1..Len(s) : s[k] = c /\ \A j \in 1..(k - 1) : s[j] # c
       IN <<SubSeq(s, 1, i - 1)>> \o Split(SubSeq(s, i + 1, Len(s)), c)

\* sep.join(parts)
RECURSIVE Join(_, _)
Join(parts, sep) ==
  IF parts = <<>> THEN <<>>
  ELSE IF Len(parts) = 1 THEN parts[1]
  ELSE parts[1] \o sep \o Join(Tail(parts), sep)

\* The lists of a list, one after the other.
RECURSIVE FlattenSeqs(_)
FlattenSeqs(ss) == IF ss = <<>> THEN <<>> ELSE Head(ss) \o FlattenSeqs(Tail(ss))

\* s < t for Python str: lexicographic by code point.
RECURSIVE StrLess(_, _)
StrLess(s, t) ==
  IF t = <<>> THEN FALSE
  ELSE IF s = <<>> THEN TRUE
  ELSE IF Head(s) = Head(t) THEN StrLess(Tail(s), Tail(t))
  ELSE Ord(Head(s)) < Ord(Head(t))

\* sorted(names) for a set of distinct strings.
RECURSIVE Sorted(_)
Sorted(names) ==
  IF names = {} THEN <<>>
  ELSE LET m == CHOOSE x \in names : \A y \in names \ {x} : StrLess(x, y)
       IN <<m>> \o Sorted(names \ {m})

\* fnmatch.fnmatch(name, pat) on POSIX: '*' matches any run of characters
\* (separators included), '?' one character, anything else itself.  The
\* patterns drawn below hold no bracket class.
RECURSIVE fnmatch(_, _)
fnmatch(name, pat) ==
  IF pat = <<>> THEN name = <<>>
  ELSE IF Head(pat) = "*"
       THEN fnmatch(name, Tail(pat)) \/ (name # <<>> /\ fnmatch(Tail(name), pat))
       ELSE /\ name # <<>>
            /\ (Head(pat) = "?" \/ Head(pat) = Head(name))
            /\ fnmatch(Tail(name), Tail(pat))

(***************************************************************************)
(* os.path on POSIX                                                        *)
(***************************************************************************)
\* One step of normpath's loop over the components.
NormStep(acc, comp, rooted) ==
  IF comp = <<>> \/ comp = <<".">> THEN acc
  ELSE IF comp = <<".", ".">>
       THEN IF acc # <<>> /\ acc[Len(acc)] # <<".", ".">>
            THEN SubSeq(acc, 1, Len(acc) - 1)
            ELSE IF rooted THEN acc ELSE Append(acc, comp)
       ELSE Append(acc, comp)

RECURSIVE NormFold(_, _, _)
NormFold(acc, comps, rooted) ==
  IF comps = <<>> THEN acc
  ELSE NormFold(NormStep(acc, Head(comps), rooted), Tail(comps), rooted)

\* os.path.normpath (a path that starts with exactly two slashes is not drawn).
normpath(p) ==
  IF p = <<>> THEN <<".">>
  ELSE LET rooted == Head(p) = SEP
           comps == NormFold(<<>>, Split(p, SEP), rooted)
           body == Join(comps, <<SEP>>)
       IN IF rooted THEN <<SEP>> \o body
          ELSE IF body = <<>> THEN <<".">> ELSE body

\* os.path.join(a, b)
pathjoin(a, b) ==
  IF b # <<>> /\ Head(b) = SEP THEN b
  ELSE IF a = <<>> \/ a[Len(a)] = SEP THEN a \o b
  ELSE a \o <<SEP>> \o b

\* os.path.abspath(p) in working directory cwd.
abspath(p, cwd) ==
  IF p # <<>> /\ Head(p) = SEP THEN normpath(p) ELSE normpath(pathjoin(cwd, p))

\* os.path.basename(p): what follows the last separator.
basename(p) == LET parts == Split(p, SEP) IN parts[Len(parts)]

(***************************************************************************)
(* Bounds and program constants                                            *)
(***************************************************************************)
\* The scaled-down values of gitingest_lite.constant's limits.
MaxFilesBound == 3
MaxTotalSizeBound == 8
\* Deepest stack of _scan_directory calls the model follows.
MaxDepth == 5

MAX_FILES == MaxFilesBound
MAX_TOTAL_SIZE_BYTES == MaxTotalSizeBound

\* Python's None, where a str is expected.
None == << "<None>" >>

\* "[Non-text file]", the content of a file that is not text.
NonTextSentinel ==
  << "[", "N", "o", "n", "-", "t", "e", "x", "t", " ", "f", "i", "l", "e", "]" >>

TMP_BASE_PATH == << ".", ".", "/", "t", "m", "p" >>

HEX_DIGITS == Digits \cup {"a", "b", "c", "d", "e", "f", "A", "B", "C", "D", "E", "F"}

(***************************************************************************)
(* The file system: a function from real (link-free) absolute paths to     *)
(* entries.  A link's target is a real path.                               *)
(***************************************************************************)
FileEntry(content) ==
  [kind |-> "file", text |-> TRUE, content |-> content, size |-> Len(content),
   readable |-> TRUE, target |-> <<>>]

BinaryEntry(size) ==
  [kind |-> "file", text |-> FALSE, content |-> <<>>, size |-> size,
   readable |-> TRUE, target |-> <<>>]

\* A text file that open() refuses with PermissionError.
UnreadableEntry(content) ==
  [kind |-> "file", text |-> TRUE, content |-> content, size |-> Len(content),
   readable |-> FALSE, target |-> <<>>]

DirEntry(readable) ==
  [kind |-> "dir", text |-> FALSE, content |-> <<>>, size |-> 0,
   readable |-> readable, target |-> <<>>]

LinkEntry(target) ==
  [kind |-> "link", text |-> FALSE, content |-> <<>>, size |-> 0,
   readable |-> TRUE, target |-> target]

\* The components of an absolute path.
Components(p) == SelectSeq(Split(p, SEP), LAMBDA c : c # <<>>)

\* os.path.dirname of a normalized absolute path.
dirname(p) ==
  LET cs == Components(p)
  IN IF Len(cs) <= 1 THEN <<SEP>>
     ELSE <<SEP>> \o Join(SubSeq(cs, 1, Len(cs) - 1), <<SEP>>)

RECURSIVE ResolveFrom(_, _, _)
ResolveFrom(f, cur, comps) ==
  IF comps = <<>> THEN cur
  ELSE LET cand == pathjoin(cur, Head(comps))
       IN IF cand \in DOMAIN f /\ f[cand].kind = "link"
          THEN ResolveFrom(f, f[cand].target, Tail(comps))
          ELSE ResolveFrom(f, cand, Tail(comps))

\* os.path.realpath(p): every link on the way followed.
realpath(f, p) == ResolveFrom(f, <<SEP>>, Components(p))

exists(f, p) == realpath(f, p) \in DOMAIN f
isfile(f, p) == exists(f, p) /\ f[realpath(f, p)].kind = "file"
isdir(f, p) == exists(f, p) /\ f[realpath(f, p)].kind = "dir"
getsize(f, p) == f[realpath(f, p)].size

\* os.listdir(p) of a readable directory, as a set of names.
listdir(f, p) ==
  LET real == realpath(f, p)
  IN {basename(q) : q \in {r \in DOMAIN f : r # <<SEP>> /\ dirname(r) = real}}

\* os.listdir(p) raises PermissionError.
ListDenied(f, p) == ~f[realpath(f, p)].readable

(***************************************************************************)
(* Pattern matcher (ingest_from_query.py)                                  *)
(***************************************************************************)
\* path.replace(base_path, "").lstrip(os.sep)
RelPath(path, base_path) == LStrip(Replace(path, base_path, <<>>), {SEP})

\* Whether any include pattern matches the relative path.
should_include(path, base_path, include_patterns) ==
  LET rel_path == RelPath(path, base_path)
  IN \E k \in 1..Len(include_patterns) : fnmatch(rel_path, include_patterns[k])

\* The body of _should_exclude's loop: one ignore pattern against rel_path.
IgnorePatternMatches(rel_path, pattern) ==
  IF pattern = <<>> THEN FALSE
  ELSE LET is_dir_pattern == EndsWith(pattern, <<SEP>>)
           pattern_base == RStrip(pattern, {SEP})
           rel_parts == Split(rel_path, SEP)
       IN IF is_dir_pattern
          THEN \/ rel_path = pattern_base
               \/ StartsWith(rel_path, pattern_base \o <<SEP>>)
               \/ \E i \in 1..Len(rel_parts) :
                     Join(SubSeq(rel_parts, 1, i), <<SEP>>) = pattern_base
          ELSE fnmatch(rel_path, pattern)

MatchesAnyIgnore(rel_path, ignore_patterns) ==
  \E k \in 1..Len(ignore_patterns) : IgnorePatternMatches(rel_path, ignore_patterns[k])

should_exclude(path, base_path, ignore_patterns) ==
  LET rel_path == Replace(RelPath(path, base_path), <<"\\">>, <<SEP>>)
  IN MatchesAnyIgnore(rel_path, ignore_patterns)

(***************************************************************************)
(* Source resolver (parse_query.py)                                        *)
(***************************************************************************)
is_valid_git_commit_hash(commit) ==
  Len(commit) = 40 /\ \A i \in 1..Len(commit) : commit[i] \in HEX_DIGITS

HTTPS == << "h", "t", "t", "p", "s", ":", "/", "/" >>
HTTP == << "h", "t", "t", "p", ":", "/", "/" >>

\* The index of the first character of s that lies in chars, or Len(s) + 1.
FirstIn(s, chars) ==
  IF \E k \in 1..Len(s) : s[k] \in chars
  THEN CHOOSE k \in 1..Len(s) : s[k] \in chars /\ \A j \in 1..(k - 1) : s[j] \notin chars
  ELSE Len(s) + 1

\* urllib.parse.urlparse of a URL that starts with a scheme and "://": the
\* scheme, the network location (up to '/', '?' or '#') and the path (up to
\* '?' or '#').
UrlPath(tail) == SubSeq(tail, 1, FirstIn(tail, {"?", "#"}) - 1)

UrlParts(scheme, rest, slash) ==
  [scheme |-> scheme,
   netloc |-> SubSeq(rest, 1, slash - 1),
   path |-> UrlPath(SubSeq(rest, slash, Len(rest)))]

UrlAfterScheme(scheme, rest) == UrlParts(scheme, rest, FirstIn(rest, {SEP, "?", "#"}))

UrlAt(url, colon) ==
  UrlAfterScheme(SubSeq(url, 1, colon - 1), SubSeq(url, colon + 3, Len(url)))

urlparse(url) == UrlAt(url, FirstIn(url, {":"}))

\* What a call that raises ValueError yields.
ValueError == [raised |-> "ValueError"]
Raised(r) == "raised" \in DOMAIN r

ISSUES == << "i", "s", "s", "u", "e", "s" >>
PULL == << "p", "u", "l", "l" >>

\* _parse_url from `parsed = {...}` on: the dictionary before any ref is read.
ParsedUrl(parsed_url, user_name, repo_name, id) ==
  [user_name |-> user_name,
   repo_name |-> repo_name,
   type |-> None,
   branch |-> None,
   commit |-> None,
   subpath |-> <<SEP>>,
   local_path |-> pathjoin(pathjoin(TMP_BASE_PATH, id),
                           user_name \o <<"-">> \o repo_name),
   url |-> parsed_url.scheme \o <<":", SEP, SEP>> \o parsed_url.netloc
             \o <<SEP>> \o user_name \o <<SEP>> \o repo_name,
   slug |-> user_name \o <<"-">> \o repo_name,
   id |-> id]

\* The commit-or-branch token and what follows it.
WithRef(parsed, type, commit_or_branch, rest) ==
  IF is_valid_git_commit_hash(commit_or_branch)
  THEN [parsed EXCEPT !.type = type, !.commit = commit_or_branch,
                      !.subpath = @ \o rest]
  ELSE [parsed EXCEPT !.type = type, !.branch = commit_or_branch,
                      !.subpath = @ \o rest]

\* _parse_url: "Handle additional path components".
ParseRef(parsed, path_parts) ==
  IF Len(path_parts) > 2 /\ path_parts[3] \in {ISSUES, PULL} THEN parsed
  ELSE IF Len(path_parts) >= 4
  THEN WithRef(parsed, path_parts[3], path_parts[4],
               IF Len(path_parts) > 4
               THEN Join(SubSeq(path_parts, 5, Len(path_parts)), <<SEP>>)
               ELSE <<>>)
  ELSE parsed

ParsePath(parsed_url, path_parts, id) ==
  IF Len(path_parts) < 2 THEN ValueError
  ELSE ParseRef(ParsedUrl(parsed_url, path_parts[1], path_parts[2], id), path_parts)

ParseParsedUrl(parsed_url, id) ==
  IF parsed_url.scheme = <<>> \/ parsed_url.netloc = <<>> THEN ValueError
  ELSE ParsePath(parsed_url, Split(Strip(parsed_url.path, {SEP}), SEP), id)

\* The URL with "https://" before it when it has no scheme.
WithScheme(url) ==
  IF ~StartsWith(url, HTTPS) /\ ~StartsWith(url, HTTP) THEN HTTPS \o url ELSE url

\* _parse_url(url), with the uuid the call draws; ValueError when it raises.
\* No %-escape is drawn, so unquote leaves the URL as it is.
parse_url(url, id) == ParseParsedUrl(urlparse(WithScheme(Split(url, " ")[1])), id)

\* query.update({...}): the patterns and the size limit of the call.
QueryUpdate(q, max_file_size, ignore_patterns, include_patterns) ==
  [max_file_size |-> max_file_size,
   ignore_patterns |-> ignore_patterns,
   include_patterns |-> include_patterns] @@ q

\* parse_query for a web URL.
WebQuery(url, id, max_file_size, ignore_patterns, include_patterns) ==
  QueryUpdate(parse_url(url, id), max_file_size, ignore_patterns, include_patterns)

\* parse_query for a local path, from the absolute source path on.  A local
\* query has no user_name, repo_name, type, branch or commit key: they are
\* None here, and url is None.
LocalQueryAt(source_path, id, max_file_size, ignore_patterns, include_patterns) ==
  QueryUpdate([user_name |-> None, repo_name |-> None, type |-> None,
               branch |-> None, commit |-> None, subpath |-> <<SEP>>,
               local_path |-> source_path, url |-> None,
               slug |-> basename(source_path), id |-> id],
              max_file_size, ignore_patterns, include_patterns)

LocalQuery(source, id, cwd, max_file_size, ignore_patterns, include_patterns) ==
  LocalQueryAt(abspath(normpath(source), cwd), id,
               max_file_size, ignore_patterns, include_patterns)

(***************************************************************************)
(* Pattern lists of the query (parse_query.py)                             *)
(***************************************************************************)
TAB == "\t"
Whitespace == {" ", TAB, NL}
PatternSeparators == {",", " "}

\* re.split(",| ", p)
RECURSIVE re_split(_)
re_split(p) ==
  IF \A i \in 1..Len(p) : p[i] \notin PatternSeparators THEN <<p>>
  ELSE LET i == CHOOSE k \in 1..Len(p) :
                  /\ p[k] \in PatternSeparators
                  /\ \A j \in 1..(k - 1) : p[j] \notin PatternSeparators
       IN <<SubSeq(p, 1, i - 1)>> \o re_split(SubSeq(p, i + 1, Len(p)))

\* Every character taken as allowed.
AllowedAnyCharacter(c) == TRUE

\* c.isalnum() or c in "-_./+*", for the characters drawn.
AllowedInPattern(c) ==
  c \in Digits \cup Upper \cup Lower \cup {"-", "_", ".", "/", "+", "*"}

\* _normalize_pattern
normalize_pattern(pattern) ==
  IF EndsWith(LStrip(Strip(pattern, Whitespace), {SEP}), <<SEP>>)
  THEN LStrip(Strip(pattern, Whitespace), {SEP}) \o <<"*">>
  ELSE LStrip(Strip(pattern, Whitespace), {SEP})

\* The patterns of the list split at commas and spaces, the empty ones left out.
SplitPatterns(patterns) ==
  SelectSeq(FlattenSeqs([i \in 1..Len(patterns) |-> re_split(patterns[i])]),
            LAMBDA p : p # <<>>)

\* _parse_patterns from the validation on.
ValidatedPatterns(parsed_patterns) ==
  IF \E i \in 1..Len(parsed_patterns) :
       \E k \in 1..Len(parsed_patterns[i]) : ~AllowedInPattern(parsed_patterns[i][k])
  THEN ValueError
  ELSE [patterns |-> [i \in 1..Len(parsed_patterns) |->
                        normalize_pattern(parsed_patterns[i])]]

\* _parse_patterns: ValueError, or the list of normalized patterns.
parse_patterns(pattern) == ValidatedPatterns(SplitPatterns(pattern))

\* `if ignore_patterns:`, `if include_patterns:`: None and the empty list
\* are not parsed.
UserPatterns(arg) == IF arg = <<>> THEN [patterns |-> <<>>] ELSE parse_patterns(arg)

\* list(dict.fromkeys(l)): the first occurrence of every element, in order.
RECURSIVE FromKeys(_)
FromKeys(l) ==
  IF l = <<>> THEN <<>>
  ELSE LET front == FromKeys(SubSeq(l, 1, Len(l) - 1))
       IN IF \E i \in 1..Len(front) : front[i] = l[Len(l)] THEN front
          ELSE Append(front, l[Len(l)])

\* parse_gitignore, one line of the file.
GitignoreLine(raw) ==
  LET line == Strip(raw, Whitespace)
  IN IF line = <<>> \/ Head(line) = "#" THEN <<>>
     ELSE IF EndsWith(line, <<SEP>>)
     THEN LET base == RStrip(line, {SEP})
          IN << base, base \o <<SEP, "*", "*">>, <<"*", "*", SEP>> \o base,
                <<"*", "*", SEP>> \o base \o <<SEP, "*", "*">> >>
     ELSE IF \E i \in 1..Len(line) : line[i] = "."
     THEN << line >>
     ELSE << line, line \o <<SEP>> >>

\* parse_gitignore: the patterns of the lines, without duplicates.
parse_gitignore(lines) ==
  FromKeys(FlattenSeqs([i \in 1..Len(lines) |-> GitignoreLine(lines[i])]))

\* The lists that hold every element of the set once.
RECURSIVE Arrangements(_)
Arrangements(elements) ==
  IF elements = {} THEN { <<>> }
  ELSE UNION { { <<x>> \o rest : rest \in Arrangements(elements \ {x}) } :
               x \in elements }

Elements(l) == { l[i] : i \in 1..Len(l) }

\* _override_ignore_patterns: list(set(ignore_patterns) - set(include_patterns)),
\* whose order Python does not fix.
override_ignore_patterns(ignore_patterns, include_patterns) ==
  Arrangements(Elements(ignore_patterns) \ Elements(include_patterns))

QueryPatterns(ignore_patterns, include_patterns) ==
  [ignore_patterns |-> ignore_patterns, include_patterns |-> include_patterns]

\* parse_query for a web URL, the pattern lists: what it may come to.
WebPatterns(defaults, ign, inc) ==
  IF Raised(ign) \/ Raised(inc) THEN { ValueError }
  ELSE { QueryPatterns(defaults \o ign.patterns, inc.patterns) }

\* parse_query for a local path, the pattern lists: what it may come to.
LocalPatterns(defaults, gitignore_patterns, ign, inc, include_given) ==
  IF Raised(ign) \/ Raised(inc) THEN { ValueError }
  ELSE IF include_given
  THEN { QueryPatterns(final, inc.patterns) :
           final \in override_ignore_patterns(
                       defaults \o gitignore_patterns \o ign.patterns, inc.patterns) }
  ELSE { QueryPatterns(defaults \o gitignore_patterns \o ign.patterns, <<>>) }

\* The pattern lists of the query parse_query returns, or ValueError.
parse_query_patterns(a) ==
  IF a.web
  THEN WebPatterns(a.defaults, UserPatterns(a.ignore_patterns),
                   UserPatterns(a.include_patterns))
  ELSE LocalPatterns(a.defaults, parse_gitignore(a.gitignore),
                     UserPatterns(a.ignore_patterns),
                     UserPatterns(a.include_patterns), a.include_patterns # <<>>)

(***************************************************************************)
(* Tree scanner (ingest_from_query.py): the parts of _scan_directory       *)
(***************************************************************************)
\* The directory node _scan_directory starts from, and returns unchanged for
\* a path that does not exist, is no directory or was already visited.
EmptyDirNode(path) ==
  [name |-> basename(path), type |-> "directory", size |-> 0, children |-> <<>>,
   file_count |-> 0, dir_count |-> 0, path |-> path, content |-> <<>>]

FileNode(item, file_size, content, item_path) ==
  [name |-> item, type |-> "file", size |-> file_size, children |-> <<>>,
   file_count |-> 0, dir_count |-> 0, path |-> item_path, content |-> content]

\* os.path.abspath(os.path.normpath(path.rstrip('\\/')))
CleanPath(path, cwd) == abspath(normpath(RStrip(path, {"\\", SEP})), cwd)

\* The base path the entries of directory `path` are matched against.
\* "Ensure we're not skipping the base path".
Rebase(path, base_path) ==
  IF path = base_path \/ StartsWith(path, base_path) THEN path ELSE base_path

BasePath(path, q, cwd) == Rebase(path, CleanPath(q.local_path, cwd))

\* The early returns without the test of seen_paths.
ReturnsEmptyUnseen(f, seen, path) ==
  \/ ~exists(f, path)
  \/ ~isdir(f, path)

\* Whether a call of _scan_directory on `path` returns the empty node at once.
ReturnsEmpty(f, seen, path) ==
  \/ ~exists(f, path)
  \/ ~isdir(f, path)
  \/ realpath(f, path) \in seen

\* sorted(os.listdir(path)); a PermissionError leaves the loop with no item.
Items(f, path) == IF ListDenied(f, path) THEN <<>> ELSE Sorted(listdir(f, path))

\* The content of an admitted file; _is_text_file returns False for a file
\* it cannot open.
FileContent(f, item_path) ==
  LET e == f[realpath(f, item_path)]
  IN IF e.readable /\ e.text THEN e.content ELSE NonTextSentinel

\* The total tested before the file's size is added to it.
ExceedsTotalSizeBefore(st, file_size) == st.total_size > MAX_TOTAL_SIZE_BYTES

\* stats["total_size"] + file_size > MAX_TOTAL_SIZE_BYTES
ExceedsTotalSize(st, file_size) == st.total_size + file_size > MAX_TOTAL_SIZE_BYTES

\* The file count tested with > in place of >=.
FileLimitPassed(st) == st.total_files > MAX_FILES

\* stats["total_files"] >= MAX_FILES
FileLimitReached(st) == st.total_files >= MAX_FILES

\* The subdirectory added whatever its file count.
AddSubdirAlways(result, subdir, include_patterns) ==
  [result EXCEPT !.children = Append(@, subdir),
                 !.size = @ + subdir.size,
                 !.file_count = @ + subdir.file_count,
                 !.dir_count = @ + 1 + subdir.dir_count]

\* The parent's result after the call on a subdirectory returned subdir.
AddSubdir(result, subdir, include_patterns) ==
  IF include_patterns = <<>> \/ subdir.file_count > 0
  THEN [result EXCEPT !.children = Append(@, subdir),
                      !.size = @ + subdir.size,
                      !.file_count = @ + subdir.file_count,
                      !.dir_count = @ + 1 + subdir.dir_count]
  ELSE result

\* The file appended without being counted.
AddFileUncounted(result, child) == [result EXCEPT !.children = Append(@, child)]

\* result["children"].append(child) and the two counters of the directory.
AddFile(result, child) ==
  [result EXCEPT !.children = Append(@, child),
                 !.size = @ + child.size,
                 !.file_count = @ + 1]

(***************************************************************************)
(* Digest renderer (ingest_from_query.py)                                  *)
(***************************************************************************)
\* The content kept whatever the size of the file.
ContentKeptAlways(node, max_file_size) == node.content

\* `if node["size"] > max_file_size: content = None`
ContentKept(node, max_file_size) ==
  IF node.size > max_file_size THEN None ELSE node.content

\* _extract_files_content: the text files of the tree, in scan order.
RECURSIVE extract_files_content(_, _, _)
extract_files_content(q, node, max_file_size) ==
  IF node.type = "file" /\ node.content # NonTextSentinel
  THEN << [path |-> Replace(node.path, q.local_path, <<>>),
           content |-> ContentKept(node, max_file_size),
           size |-> node.size] >>
  ELSE IF node.type = "directory"
  THEN FlattenSeqs([i \in 1..Len(node.children) |->
                      extract_files_content(q, node.children[i], max_file_size)])
  ELSE <<>>

Separator == [i \in 1..48 |-> "="] \o <<NL>>
FilePrefix == << "F", "i", "l", "e", ":", " " >>
README_PATH == << "/", "r", "e", "a", "d", "m", "e", ".", "m", "d" >>

\* `not file["content"]`: None or the empty string.
NoContent(file) == file.content = None \/ file.content = <<>>

FileBlock(file) ==
  Separator \o FilePrefix \o file.path \o <<NL>> \o Separator \o file.content \o <<NL, NL>>

IsReadme(file) == StrLower(file.path) = README_PATH

create_file_content_string(files) ==
  LET firsts == SelectSeq(files, LAMBDA file : ~NoContent(file) /\ IsReadme(file))
      first == IF firsts = <<>> THEN <<>> ELSE FileBlock(firsts[1])
      others == SelectSeq(files, LAMBDA file : ~(NoContent(file) \/ IsReadme(file)))
  IN first \o FlattenSeqs([i \in 1..Len(others) |-> FileBlock(others[i])])

ConnectorLastAsMid == << BOX_VR, BOX_H, BOX_H, " " >>
ConnectorLast == << BOX_UR, BOX_H, BOX_H, " " >>
ConnectorMid == << BOX_VR, BOX_H, BOX_H, " " >>
IndentLast == << " ", " ", " ", " " >>
IndentMidBlank == << " ", " ", " ", " " >>
IndentMid == << BOX_V, " ", " ", " " >>

\* _create_tree_structure: a node without a name takes the query's slug.
RECURSIVE create_tree_structure(_, _, _, _)
create_tree_structure(q, node, prefix, is_last) ==
  LET name == IF node.name = <<>> THEN q.slug ELSE node.name
      line == IF name # <<>>
              THEN prefix \o (IF is_last THEN ConnectorLast ELSE ConnectorMid)
                     \o (IF node.type = "directory" THEN name \o <<SEP>> ELSE name)
                     \o <<NL>>
              ELSE <<>>
      new_prefix == IF name # <<>>
                    THEN prefix \o (IF is_last THEN IndentLast ELSE IndentMid)
                    ELSE prefix
      children == node.children
  IN IF node.type = "directory"
     THEN line \o FlattenSeqs([i \in 1..Len(children) |->
                 create_tree_structure(q, children[i], new_prefix, i = Len(children))])
     ELSE line

\* str(n) of a natural number.
RECURSIVE IntToStr(_)
IntToStr(n) ==
  LET d == <<"0", "1", "2", "3", "4", "5", "6", "7", "8", "9">>[(n % 10) + 1]
  IN IF n < 10 THEN <<d>> ELSE IntToStr(n \div 10) \o <<d>>

RepositoryPrefix == << "R", "e", "p", "o", "s", "i", "t", "o", "r", "y", ":", " " >>
FilesAnalyzedPrefix ==
  << "F", "i", "l", "e", "s", " ", "a", "n", "a", "l", "y", "z", "e", "d", ":", " " >>
SubpathPrefix == << "S", "u", "b", "p", "a", "t", "h", ":", " " >>
CommitPrefix == << "C", "o", "m", "m", "i", "t", ":", " " >>
BranchPrefix == << "B", "r", "a", "n", "c", "h", ":", " " >>
MAIN == << "m", "a", "i", "n" >>
MASTER == << "m", "a", "s", "t", "e", "r" >>

\* _create_summary_string.  A web query is the one that has a user_name key.
create_summary_string(q, nodes) ==
  (IF q.user_name # None
   THEN RepositoryPrefix \o q.user_name \o <<SEP>> \o q.repo_name \o <<NL>>
   ELSE RepositoryPrefix \o q.slug \o <<NL>>)
  \o FilesAnalyzedPrefix \o IntToStr(nodes.file_count) \o <<NL>>
  \o (IF q.subpath # <<SEP>> THEN SubpathPrefix \o q.subpath \o <<NL>> ELSE <<>>)
  \o (IF q.commit # None /\ q.commit # <<>>
      THEN CommitPrefix \o q.commit \o <<NL>>
      ELSE IF q.branch # None /\ q.branch # MAIN /\ q.branch # MASTER /\ q.branch # <<>>
      THEN BranchPrefix \o q.branch \o <<NL>>
      ELSE <<>>)

DirectoryStructure ==
  << "D", "i", "r", "e", "c", "t", "o", "r", "y", " ",
     "s", "t", "r", "u", "c", "t", "u", "r", "e", ":", NL >>

\* f"{total_tokens / unit:.1f}"; no count drawn lies halfway between two tenths.
OneDecimal(total_tokens, unit) ==
  LET tenths == (total_tokens * 10 + unit \div 2) \div unit
  IN IntToStr(tenths \div 10) \o <<".">> \o IntToStr(tenths % 10)

\* _generate_token_string, given the count the tokenizer returned.
generate_token_string(total_tokens) ==
  IF total_tokens > 1000000 THEN OneDecimal(total_tokens, 1000000) \o <<"M">>
  ELSE IF total_tokens > 1000 THEN OneDecimal(total_tokens, 1000) \o <<"k">>
  ELSE IntToStr(total_tokens)

EstimatedTokensPrefix ==
  << NL, "E", "s", "t", "i", "m", "a", "t", "e", "d", " ",
     "t", "o", "k", "e", "n", "s", ":", " " >>

(***************************************************************************)
(* State                                                                   *)
(***************************************************************************)
VARIABLES
  cwd,          \* the working directory of the process
  fs,           \* the file system
  query,        \* the query parse_query returned
  ignore_given, \* history: the ignore patterns parse_query was called with
  pc,           \* where ingest_from_query is
  stack,        \* the active calls of _scan_directory, the innermost last
  seen_paths,   \* the real paths visited in this walk
  stats,        \* the running counters of this walk
  nodes,        \* the tree _scan_directory returned
  files,        \* the list _extract_files_content returned
  tree,         \* the rendered tree
  content,      \* the rendered file contents
  summary,      \* the rendered summary
  admitted,     \* history: the paths of the files admitted, in order
  expanded,     \* history: the real paths of the directories listed, in order
  revisits,     \* history: the nodes returned for already visited directories
  events,       \* history: the branches of the walk taken so far
  url,          \* the locator handed to _parse_url
  parsed,       \* what _parse_url returned for it
  args,         \* the pattern arguments handed to parse_query
  patterns,     \* the pattern lists of the query it returned
  impl,         \* which ingest runs: ingest.py's or __main__.py's
  source,       \* the kind of source it was called with
  handle,       \* what it holds of the source: query (ingest.py), temp_dir (__main__.py)
  registered,   \* cleanup_temp_dir is registered with atexit
  rpc,          \* where that ingest is
  cpc,          \* where the cleanup it called is
  temp,         \* the entries of the temporary directory, each with its mode
  exc,          \* the exception on its way out of ingest
  escaped,      \* history: an exception left the cleanup step
  faults,       \* history: the steps of the cleanup that failed
  cleanups,     \* history: how many times the cleanup was called
  caller,       \* who called it: library code or cli.py's main
  defect,       \* what is wrong with the arguments of the call, if anything
  output,       \* whether the call names an output path
  digest,       \* the summary, tree and content the pipeline produced
  outfile,      \* the text of the file at the output path
  log,          \* history: the stages of the pipeline passed, in order
  token_total,      \* the count the tokenizer returned
  formatted_tokens, \* the string _generate_token_string made of it
  script_defaults,  \* the list DEFAULT_IGNORE_PATTERNS of module __main__
  package_defaults, \* the list DEFAULT_IGNORE_PATTERNS parse_query.py imports
  invocations,      \* how many invocations this process has made
  scan_ignore,      \* the ignore patterns the latest invocation scanned with
  disk,             \* the paths that exist, of the temporary base and the local source
  phase             \* what each invocation of ingest.py's ingest has come to

envVars == <<cwd, fs, query, ignore_given>>
scanVars == <<pc, stack, seen_paths, stats, nodes, files, tree, content, summary>>
histVars == <<admitted, expanded, revisits, events>>
walkVars == <<envVars, scanVars, histVars>>
urlVars == <<url, parsed, args, patterns>>
runHist == <<caller, defect, output, digest, outfile, log>>
runVars ==
  <<impl, source, handle, registered, rpc, cpc, temp, exc, escaped, faults, cleanups,
    runHist>>
tokenVars == <<token_total, formatted_tokens>>
sessionVars == <<script_defaults, package_defaults, invocations, scan_ignore>>
diskVars == <<disk, phase>>
sideVars == <<tokenVars, sessionVars, diskVars>>
outsideWalk == <<urlVars, runVars, sideVars>>
vars == <<walkVars, urlVars, sideVars, runVars, sideVars>>

\* No locator is being parsed; no ingest is running.
NotParsed == [state |-> "not parsed"]
NoArgs == [state |-> "no call"]
UrlIdle == url = <<>> /\ parsed = NotParsed /\ args = NoArgs /\ patterns = NotParsed
NotFormatted == << "<not formatted>" >>
\* No count is being formatted (-1: none was taken).
TokensIdle == token_total = -1 /\ formatted_tokens = NotFormatted
\* No process is making invocations.
SessionIdle ==
  /\ script_defaults = <<>>
  /\ package_defaults = <<>>
  /\ invocations = 0
  /\ scan_ignore = <<>>
\* No invocations share a temporary base.
DiskIdle == disk = {} /\ phase = <<>>
SideIdle == TokensIdle /\ SessionIdle /\ DiskIdle
NoTemp == [n \in {} |-> "plain"]
NoDigest == [state |-> "no digest"]
NoFile == << "<no file>" >>
RunIdle ==
  /\ impl = "none"
  /\ source = "none"
  /\ handle = "none"
  /\ registered = FALSE
  /\ rpc = "idle"
  /\ cpc = "none"
  /\ temp = NoTemp
  /\ exc = "none"
  /\ escaped = FALSE
  /\ faults = {}
  /\ cleanups = 0
  /\ caller = "none"
  /\ defect = "none"
  /\ output = FALSE
  /\ digest = NoDigest
  /\ outfile = NoFile
  /\ log = <<>>

(***************************************************************************)
(* The inputs drawn                                                        *)
(***************************************************************************)
N_a == << "a", ".", "t", "x", "t" >>
N_README == << "R", "E", "A", "D", "M", "E", ".", "m", "d" >>
N_readme == << "r", "e", "a", "d", "m", "e", ".", "m", "d" >>
N_bin == << "b", ".", "b", "i", "n" >>
N_s == << "s" >>
N_x == << "x", ".", "t", "x", "t" >>
N_up == << "u", "p" >>
N_t == << "t" >>
N_y == << "y", ".", "t", "x", "t" >>
N_e == << "e" >>
N_u == << "u" >>
N_z == << "z", ".", "t", "x", "t" >>
N_v == << "v", ".", "t", "x", "t" >>
N_d == << "d" >>
HELLO == << "h", "e", "l", "l", "o" >>

Under(root, names) == pathjoin(root, Join(names, <<SEP>>))

\* The entries of the tree under `root` that the options o select.
TreeEntries(root, o) ==
  {<<root, DirEntry(TRUE)>>}
  \cup (IF o.a THEN {<<Under(root, <<N_a>>), FileEntry(HELLO)>>} ELSE {})
  \cup (IF o.readme = "upper"
        THEN {<<Under(root, <<N_README>>), FileEntry(<<"h", "i">>)>>} ELSE {})
  \cup (IF o.readme = "lower"
        THEN {<<Under(root, <<N_readme>>), FileEntry(<<"h", "i">>)>>} ELSE {})
  \cup (IF o.bin THEN {<<Under(root, <<N_bin>>), BinaryEntry(3)>>} ELSE {})
  \cup (IF o.s # "none"
        THEN {<<Under(root, <<N_s>>), DirEntry(TRUE)>>,
              <<Under(root, <<N_s, N_x>>), FileEntry(<<"x">>)>>} ELSE {})
  \cup (IF o.s \in {"loop", "deep"}
        THEN {<<Under(root, <<N_s, N_up>>), LinkEntry(root)>>} ELSE {})
  \cup (IF o.s = "deep"
        THEN {<<Under(root, <<N_s, N_t>>), DirEntry(TRUE)>>,
              <<Under(root, <<N_s, N_t, N_y>>), FileEntry(<<"y", "y">>)>>} ELSE {})
  \cup (IF o.extra = "empty" THEN {<<Under(root, <<N_e>>), DirEntry(TRUE)>>} ELSE {})
  \cup (IF o.extra = "denied"
        THEN {<<Under(root, <<N_u>>), DirEntry(FALSE)>>,
              <<Under(root, <<N_u, N_z>>), FileEntry(<<"z">>)>>,
              <<Under(root, <<N_v>>), UnreadableEntry(<<"v">>)>>} ELSE {})
  \cup (IF o.extra = "dangling"
        THEN {<<Under(root, <<N_d>>), LinkEntry(<<SEP, "n", "o">>)>>} ELSE {})

MkFS(entries) ==
  [p \in {e[1] : e \in entries} |-> (CHOOSE e \in entries : e[1] = p)[2]]

TreeOptions ==
  [a : BOOLEAN, readme : {"none", "upper", "lower"}, bin : BOOLEAN,
   s : {"none", "plain", "loop", "deep"},
   extra : {"none", "empty", "denied", "dangling"}]

IgnoreLists ==
  { <<>>,
    << <<"*", ".", "b", "i", "n">> >>,
    << <<"s", "/", "x", ".", "t", "x", "t">> >>,
    << <<"s", "/">> >> }

\* Contents of DEFAULT_IGNORE_PATTERNS, which parse_query copies unparsed to
\* the front of the query's ignore patterns.
DefaultIgnoreLists ==
  { << <<"s", "/">> >>,
    << <<"x", ".", "t", "x", "t">>, <<"t", "/">> >> }

\* <<>> stands for None and for the empty list: the scan tests only truth.
IncludeLists ==
  { <<>>,
    << <<"*", ".", "t", "x", "t">> >>,
    << <<"*", ".", "m", "d">> >>,
    << <<"s", "/", "x", ".", "t", "x", "t">> >> }

MaxFileSizes == {1, 4, 10}

\* The calls drawn: every size limit without patterns; every ignore list,
\* every include list and every default list under the largest size limit,
\* either alone; a smaller limit with an include list; calls with both lists.
Call(mfs, ign, inc) == [mfs |-> mfs, defaults |-> <<>>, ign |-> ign, inc |-> inc]
DefaultsCall(mfs, defaults) ==
  [mfs |-> mfs, defaults |-> defaults, ign |-> <<>>, inc |-> <<>>]
PlainCalls == { Call(mfs, <<>>, <<>>) : mfs \in MaxFileSizes }
PatternCalls ==
  { Call(10, ign, <<>>) : ign \in IgnoreLists }
    \cup { DefaultsCall(10, defaults) : defaults \in DefaultIgnoreLists }
    \cup { Call(10, <<>>, inc) : inc \in IncludeLists }
    \cup { Call(4, <<>>, << <<"*", ".", "t", "x", "t">> >>),
           Call(10, << <<"*", ".", "b", "i", "n">> >>, << <<"s", "/", "x", ".", "t", "x", "t">> >>),
           Call(10, << N_a >>, << N_a >>) }

CWD_WORK == << "/", "w", "/", "c" >>
URL_REPO ==
  << "h", "t", "t", "p", "s", ":", "/", "/", "g", "i", "t", "h", "u", "b", ".",
     "c", "o", "m", "/", "u", "/", "r" >>
URL_SUB == URL_REPO \o << "/", "t", "r", "e", "e", "/", "m", "a", "i", "n", "/", "s" >>
ID_I == << "i" >>

\* The sources drawn: a local directory, the file system's root run from it,
\* a remote repository and a subdirectory of a remote repository.
SourceKinds == {"local", "fsroot", "remote", "remote_sub"}

CwdOf(kind) == IF kind = "fsroot" THEN <<SEP>> ELSE CWD_WORK
CallsOf(kind) ==
  IF kind \in {"local", "remote"} THEN PlainCalls \cup PatternCalls ELSE PlainCalls

QueryOf(kind, mfs, ign, inc) ==
  CASE kind = "local" -> LocalQuery(<<SEP, "p">>, ID_I, CwdOf(kind), mfs, ign, inc)
    [] kind = "fsroot" -> LocalQuery(<<SEP>>, ID_I, CwdOf(kind), mfs, ign, inc)
    [] kind = "remote" -> WebQuery(URL_REPO, ID_I, mfs, ign, inc)
    [] kind = "remote_sub" -> WebQuery(URL_SUB, ID_I, mfs, ign, inc)

(***************************************************************************)
(* ingest_from_query: the directory walk, one entry per step               *)
(***************************************************************************)
BLOB == << "b", "l", "o", "b" >>

\* The path ingest_from_query scans: local_path joined with subpath.
IngestPath(q, c) ==
  abspath(normpath(pathjoin(RStrip(q.local_path, {"\\", SEP}),
                            RStrip(LStrip(q.subpath, {SEP}), {"\\", SEP}))), c)

\* The directory the clone of a web query lands in (the query's own for a local one).
RepoRoot(q, c) == abspath(q.local_path, c)

NoStats == [total_files |-> 0, total_size |-> 0]

\* No walk is under way.
WalkIdle ==
  /\ cwd = <<SEP>>
  /\ query = None
  /\ ignore_given = <<>>
  /\ fs = <<>>
  /\ pc = "idle"
  /\ stack = <<>>
  /\ seen_paths = {}
  /\ stats = NoStats
  /\ nodes = EmptyDirNode(<<>>)
  /\ files = <<>>
  /\ tree = <<>>
  /\ content = <<>>
  /\ summary = <<>>
  /\ admitted = <<>>
  /\ expanded = <<>>
  /\ revisits = {}
  /\ events = {}

\* The state before ingest_from_query is called with query q in working
\* directory c, the tree under the repository's root being the entries.
InitWith(q, c, entries) ==
  /\ cwd = c
  /\ query = q
  /\ fs = MkFS(entries)
  /\ pc = "start"
  /\ stack = <<>>
  /\ seen_paths = {}
  /\ stats = NoStats
  /\ nodes = EmptyDirNode(<<>>)
  /\ files = <<>>
  /\ tree = <<>>
  /\ content = <<>>
  /\ summary = <<>>
  /\ admitted = <<>>
  /\ expanded = <<>>
  /\ revisits = {}
  /\ events = {}
  /\ UrlIdle
  /\ RunIdle
  /\ SideIdle

InitQuery(q, c, o) == InitWith(q, c, TreeEntries(RepoRoot(q, c), o))

\* The pattern lists parse_query makes of the patterns of the call; the
\* local source has no ignore file.
PatternsOf(kind, call) ==
  IF kind \in {"local", "fsroot"}
  THEN LocalPatterns(call.defaults, <<>>, UserPatterns(call.ign),
                     UserPatterns(call.inc), call.inc # <<>>)
  ELSE WebPatterns(call.defaults, UserPatterns(call.ign), UserPatterns(call.inc))

Init ==
  \E kind \in SourceKinds, o \in TreeOptions :
    \E call \in CallsOf(kind) :
      \E p \in PatternsOf(kind, call) :
        /\ ignore_given = call.ign
        /\ InitQuery(QueryOf(kind, call.mfs, p.ignore_patterns, p.include_patterns),
                     CwdOf(kind), o)

\* A new call of _scan_directory on a directory not yet visited.
Frame(path) ==
  [path |-> path,
   base_path |-> BasePath(path, query, cwd),
   items |-> Items(fs, path),
   result |-> EmptyDirNode(path)]

Top == stack[Len(stack)]
Item == Head(Top.items)
ItemPath == normpath(pathjoin(Top.path, Item))
InLoop == pc = "scan" /\ stack # <<>> /\ Top.items # <<>>
Excluded == should_exclude(ItemPath, Top.base_path, query.ignore_patterns)
NotIncluded ==
  /\ query.include_patterns # <<>>
  /\ ~should_include(ItemPath, Top.base_path, query.include_patterns)

\* The stack with the innermost call past its current entry, its result r.
Continue(r) ==
  [stack EXCEPT ![Len(stack)] = [@ EXCEPT !.items = Tail(@), !.result = r]]

\* The path exists and is a directory (ingest_from_query raises otherwise).
IsDirectoryPath(path) == exists(fs, path) /\ isdir(fs, path)

AtStart == pc = "start" /\ query.type # BLOB
AtFile == InLoop /\ ~Excluded /\ isfile(fs, ItemPath)
AtOther == InLoop /\ ~Excluded /\ ~isfile(fs, ItemPath)
Fits == ~ExceedsTotalSize(stats, getsize(fs, ItemPath))

\* What decides which branch of the loop body an entry takes.
CanIngestRaise == AtStart /\ ~IsDirectoryPath(IngestPath(query, cwd))
CanScanStart == AtStart /\ IsDirectoryPath(IngestPath(query, cwd))
CanScanExcluded == InLoop /\ Excluded
CanScanNotIncluded == AtFile /\ NotIncluded
CanScanSizeSkip == AtFile /\ ~NotIncluded /\ ~Fits
CanScanFileLimit == AtFile /\ ~NotIncluded /\ Fits /\ FileLimitReached(stats)
CanScanAdmit == AtFile /\ ~NotIncluded /\ Fits /\ ~FileLimitReached(stats)
CanScanEnterDir ==
  /\ AtOther
  /\ isdir(fs, ItemPath)
  /\ ~ReturnsEmpty(fs, seen_paths, CleanPath(ItemPath, cwd))
  /\ Len(stack) < MaxDepth
CanScanRevisit ==
  /\ AtOther
  /\ isdir(fs, ItemPath)
  /\ ReturnsEmpty(fs, seen_paths, CleanPath(ItemPath, cwd))
CanScanNeither == AtOther /\ ~isdir(fs, ItemPath)
CanScanReturn == pc = "scan" /\ Len(stack) > 1 /\ Top.items = <<>>
CanScanFinish == pc = "scan" /\ Len(stack) = 1 /\ Top.items = <<>>
CanRender == pc = "scanned"

\* A call of _scan_directory that lists the directory `path` begins.
Enter(path) ==
  /\ stack' = Append(stack, Frame(path))
  /\ seen_paths' = seen_paths \cup {realpath(fs, path)}
  /\ expanded' = Append(expanded, realpath(fs, path))
  /\ events' = IF ListDenied(fs, path) THEN events \cup {"denied"} ELSE events

\* The loop goes on to the next entry, the result as it was.
Skip(event) ==
  /\ stack' = Continue(Top.result)
  /\ events' = events \cup {event}
  /\ UNCHANGED <<outsideWalk, envVars, pc, seen_paths, stats, nodes, files, tree,
                 content, summary, admitted, expanded, revisits>>

\* ingest_from_query raises: the path does not exist or is no directory.
IngestRaises ==
  /\ CanIngestRaise
  /\ pc' = "raised"
  /\ UNCHANGED <<outsideWalk, envVars, stack, seen_paths, stats, nodes, files, tree,
                 content, summary, histVars>>

\* _ingest_directory calls _scan_directory on the root.
ScanStart ==
  /\ CanScanStart
  /\ Enter(CleanPath(IngestPath(query, cwd), cwd))
  /\ pc' = "scan"
  /\ UNCHANGED <<outsideWalk, envVars, stats, nodes, files, tree, content, summary,
                 admitted, revisits>>

\* The entry matches an ignore pattern: continue.
ScanExcluded == CanScanExcluded /\ Skip("excluded")

\* The entry is a file that matches no include pattern: continue.
ScanNotIncluded == CanScanNotIncluded /\ Skip("not_included")

\* The file would take the total over MAX_TOTAL_SIZE_BYTES and the loop of
\* the directory is left.
ScanSizeBreak ==
  /\ CanScanSizeSkip
  /\ stack' = [stack EXCEPT ![Len(stack)] = [@ EXCEPT !.items = <<>>]]
  /\ events' = events \cup {"size_skip"}
  /\ UNCHANGED <<outsideWalk, envVars, pc, seen_paths, stats, nodes, files, tree,
                 content, summary, admitted, expanded, revisits>>

\* The file would take the total over MAX_TOTAL_SIZE_BYTES: continue.
ScanSizeSkip == CanScanSizeSkip /\ Skip("size_skip")

\* MAX_FILES files are in: break out of this directory's loop.
ScanFileLimit ==
  /\ CanScanFileLimit
  /\ stack' = [stack EXCEPT ![Len(stack)] = [@ EXCEPT !.items = <<>>]]
  /\ events' = events \cup {"file_limit"}
  /\ UNCHANGED <<outsideWalk, envVars, pc, seen_paths, stats, nodes, files, tree,
                 content, summary, admitted, expanded, revisits>>

\* The file is admitted: counted, read and appended to the directory's children.
Admit(item, item_path, file_size) ==
  /\ stats' = [total_files |-> stats.total_files + 1,
               total_size |-> stats.total_size + file_size]
  /\ stack' = Continue(AddFile(Top.result,
                 FileNode(item, file_size, FileContent(fs, item_path), item_path)))
  /\ admitted' = Append(admitted, item_path)

ScanAdmit ==
  /\ CanScanAdmit
  /\ Admit(Item, ItemPath, getsize(fs, ItemPath))
  /\ events' = events \cup {"admitted"}
  /\ UNCHANGED <<outsideWalk, envVars, pc, seen_paths, nodes, files, tree, content,
                 summary, expanded, revisits>>

\* The entry is a directory not yet visited: the recursive call lists it.
ScanEnterDir ==
  /\ CanScanEnterDir
  /\ Enter(CleanPath(ItemPath, cwd))
  /\ UNCHANGED <<outsideWalk, envVars, pc, stats, nodes, files, tree, content, summary,
                 admitted, revisits>>

\* The entry is a directory already visited: the recursive call returns the
\* empty node at once, and the caller adds it or drops it.
Revisit(subdir) ==
  /\ stack' = Continue(AddSubdir(Top.result, subdir, query.include_patterns))
  /\ revisits' = revisits \cup {subdir}

ScanRevisit ==
  /\ CanScanRevisit
  /\ Revisit(EmptyDirNode(CleanPath(ItemPath, cwd)))
  /\ events' = events \cup {"revisit"}
  /\ UNCHANGED <<outsideWalk, envVars, pc, seen_paths, stats, nodes, files, tree,
                 content, summary, admitted, expanded>>

\* The entry is neither a file nor a directory (a dangling link): nothing.
ScanNeither == CanScanNeither /\ Skip("neither")

\* The same, but the PermissionError of a listing reaches the caller's
\* handler and ends the caller's loop.
ReturnDeniedToCaller(subdir, callers) ==
  /\ stack' = [callers EXCEPT ![Len(callers)] =
                 [@ EXCEPT !.items = IF ListDenied(fs, subdir.path) THEN <<>> ELSE Tail(@),
                           !.result = AddSubdir(@, subdir, query.include_patterns)]]
  /\ events' = IF query.include_patterns # <<>> /\ subdir.file_count = 0
               THEN events \cup {"dropped"} ELSE events

\* The loop of a recursive call is over: it returns its result, and the caller
\* adds the subdirectory or drops it.
Return(subdir, callers) ==
  /\ stack' = [callers EXCEPT ![Len(callers)] =
                 [@ EXCEPT !.items = Tail(@),
                           !.result = AddSubdir(@, subdir, query.include_patterns)]]
  /\ events' = IF query.include_patterns # <<>> /\ subdir.file_count = 0
               THEN events \cup {"dropped"} ELSE events

ScanReturn ==
  /\ CanScanReturn
  /\ Return(Top.result, SubSeq(stack, 1, Len(stack) - 1))
  /\ UNCHANGED <<outsideWalk, envVars, pc, seen_paths, stats, nodes, files, tree,
                 content, summary, admitted, expanded, revisits>>

\* The loop of the outermost call is over: _scan_directory returns the tree.
ScanFinish ==
  /\ CanScanFinish
  /\ nodes' = Top.result
  /\ stack' = <<>>
  /\ pc' = "scanned"
  /\ UNCHANGED <<outsideWalk, envVars, seen_paths, stats, files, tree, content,
                 summary, histVars>>

\* The counts the tokenizer may return for the digest; -1: it raises.
TokenCounts == {-1, 12, 1500}

\* The rest of _ingest_directory: the files, the summary, the tree, the content
\* and the token estimate.
Render ==
  /\ CanRender
  /\ \E total_tokens \in TokenCounts :
       LET fl == extract_files_content(query, nodes, query.max_file_size)
           sm == create_summary_string(query, nodes)
       IN /\ files' = fl
          /\ tree' = DirectoryStructure \o create_tree_structure(query, nodes, <<>>, TRUE)
          /\ content' = create_file_content_string(fl)
          /\ summary' = IF total_tokens < 0 THEN sm
                        ELSE sm \o EstimatedTokensPrefix
                                \o generate_token_string(total_tokens)
  /\ pc' = "done"
  /\ UNCHANGED <<outsideWalk, envVars, stack, seen_paths, stats, nodes, histVars>>

Next ==
  \/ IngestRaises
  \/ ScanStart
  \/ ScanExcluded
  \/ ScanNotIncluded
  \/ ScanSizeSkip
  \/ ScanFileLimit
  \/ ScanAdmit
  \/ ScanEnterDir
  \/ ScanRevisit
  \/ ScanNeither
  \/ ScanReturn
  \/ ScanFinish
  \/ Render

Spec == Init /\ [][Next]_vars


(***************************************************************************)
(* _parse_url applied to the locators drawn                                *)
(***************************************************************************)
TREE == << "t", "r", "e", "e" >>
WIKI == << "w", "i", "k", "i" >>
HOST_REPO == << "g", "i", "t", "h", "u", "b", ".", "c", "o", "m", "/", "u", "/", "r" >>
HOST_USER == << "g", "i", "t", "h", "u", "b", ".", "c", "o", "m", "/", "u" >>

\* The tokens drawn for the place after the third segment: 40 hexadecimal
\* characters in lower and in mixed case, 39 and 41 of them, 40 characters
\* one of which is not hexadecimal, and a branch name.
RefTokens ==
  { [i \in 1..40 |-> IF i % 2 = 0 THEN "a" ELSE "1"],
    [i \in 1..40 |-> IF i % 2 = 0 THEN "F" ELSE "c"],
    [i \in 1..39 |-> "0"],
    [i \in 1..41 |-> "e"],
    [i \in 1..40 |-> IF i = 40 THEN "g" ELSE "b"],
    MAIN }

ThirdSegments == {TREE, BLOB, ISSUES, PULL, WIKI}
Subpaths == { <<>>, <<SEP, "s">>, <<SEP, "s", SEP, "t">> }
Schemes == { <<>>, HTTPS, HTTP }

\* The locators drawn: a repository, with a third segment, with a token after
\* it and with a path after the token; a user alone, which is no repository.
Locators ==
  { scheme \o HOST_REPO : scheme \in Schemes }
    \cup { scheme \o HOST_USER : scheme \in Schemes }
    \cup { scheme \o HOST_REPO \o <<SEP>> \o third :
             scheme \in Schemes, third \in ThirdSegments }
    \cup { scheme \o HOST_REPO \o <<SEP>> \o third \o <<SEP>> \o token \o rest :
             scheme \in Schemes, third \in ThirdSegments,
             token \in RefTokens, rest \in Subpaths }

InitUrl ==
  /\ url \in Locators
  /\ parsed = NotParsed
  /\ args = NoArgs
  /\ patterns = NotParsed
  /\ WalkIdle
  /\ RunIdle
  /\ SideIdle

ParseUrl ==
  /\ url # <<>>
  /\ parsed = NotParsed
  /\ parsed' = parse_url(url, ID_I)
  /\ UNCHANGED <<url, args, patterns, walkVars, runVars, sideVars>>

NextUrl == ParseUrl

SpecUrl == InitUrl /\ [][NextUrl]_vars

(***************************************************************************)
(* parse_query applied to the pattern arguments drawn                      *)
(***************************************************************************)
P_BIN == << "*", ".", "b", "i", "n" >>
P_PYC == << "*", ".", "p", "y", "c" >>

DefaultLists == { <<>>, << P_BIN >>, << P_PYC >> }

\* The lines of the .gitignore file; none when there is no such file.
GitignoreFiles ==
  { <<>>,
    << N_s >>,
    << P_BIN, << "#", " ", "c" >>, <<>>, P_BIN \o << " " >> >> }

IgnoreArgs ==
  { <<>>,
    << P_BIN >>,
    << N_a, N_a >>,
    << N_a \o << "," >> \o P_BIN >>,
    << << "x", " ", "y" >> >>,
    << << "x", "!", "y" >> >>,
    << << TAB, "x" >> >>,
    << << "s", SEP >>, << SEP, "t" >> >> }

IncludeArgs ==
  { <<>>,
    << P_BIN >>,
    << N_a >>,
    << N_a, N_a >>,
    << << "x", ",", "y", " " >> >>,
    << << "x", "?" >> >> }

PatternArgs ==
  [web : BOOLEAN, defaults : DefaultLists, gitignore : GitignoreFiles,
   ignore_patterns : IgnoreArgs, include_patterns : IncludeArgs]

InitPatterns ==
  /\ args \in PatternArgs
  /\ args.web => args.gitignore = <<>>
  /\ patterns = NotParsed
  /\ url = <<>>
  /\ parsed = NotParsed
  /\ WalkIdle
  /\ RunIdle
  /\ SideIdle

ParsePatterns ==
  /\ args # NoArgs
  /\ patterns = NotParsed
  /\ patterns' \in parse_query_patterns(args)
  /\ UNCHANGED <<url, parsed, args, walkVars, runVars, sideVars>>

NextPatterns == ParsePatterns

SpecPatterns == InitPatterns /\ [][NextPatterns]_vars

(***************************************************************************)
(* _generate_token_string applied to the counts drawn                      *)
(***************************************************************************)
\* The counts drawn: around both thresholds and within both abbreviated
\* ranges, none halfway between two tenths of its unit.
TokenTotals ==
  (0..12) \cup (995..1005) \cup {1049, 1051, 1500, 1949, 1951, 9999, 99949}
    \cup (999940..999949) \cup (999951..1000005)
    \cup {1049999, 1050001, 1500000, 1949999, 1950001, 12345678}

InitTokens ==
  /\ token_total \in TokenTotals
  /\ formatted_tokens = NotFormatted
  /\ SessionIdle
  /\ DiskIdle
  /\ WalkIdle
  /\ UrlIdle
  /\ RunIdle

FormatTokens ==
  /\ token_total >= 0
  /\ formatted_tokens = NotFormatted
  /\ formatted_tokens' = generate_token_string(token_total)
  /\ UNCHANGED <<token_total, sessionVars, diskVars, walkVars, urlVars, runVars>>

NextTokens == FormatTokens

SpecTokens == InitTokens /\ [][NextTokens]_vars

(***************************************************************************)
(* Invocations made one after another in one process                       *)
(***************************************************************************)
\* The entries of a default list when its module is imported.
ImportDefaults == << P_PYC >>

\* Most invocations one process is followed through.
MaxInvocations == 3

\* The ignore_patterns argument of __main__.py's ingest: None, or a list.
GivenIgnoreLists == { None, <<>>, << N_a >> }

InitSession ==
  /\ script_defaults = ImportDefaults
  /\ package_defaults = ImportDefaults
  /\ invocations = 0
  /\ scan_ignore = <<>>
  /\ TokensIdle
  /\ DiskIdle
  /\ WalkIdle
  /\ UrlIdle
  /\ RunIdle

\* scan_directory of __main__.py on a source whose .gitignore has the lines
\* drawn: without a list from the caller, ignore_patterns is the module's
\* list itself, and extend() appends to it.
ScriptScan ==
  /\ invocations < MaxInvocations
  /\ \E given \in GivenIgnoreLists, gitignore \in GitignoreFiles :
       IF given = None
       THEN /\ script_defaults' = script_defaults \o parse_gitignore(gitignore)
            /\ scan_ignore' = script_defaults \o parse_gitignore(gitignore)
       ELSE /\ script_defaults' = script_defaults
            /\ scan_ignore' = given \o parse_gitignore(gitignore)
  /\ invocations' = invocations + 1
  /\ UNCHANGED <<package_defaults, tokenVars, diskVars, walkVars, urlVars, runVars>>

\* parse_query on a local source whose .gitignore has the lines drawn: the
\* patterns are added to a copy of the imported list.
PackageParse ==
  /\ invocations < MaxInvocations
  /\ \E ign \in { <<>>, << N_a >> }, gitignore \in GitignoreFiles :
       \E p \in LocalPatterns(package_defaults, parse_gitignore(gitignore),
                              UserPatterns(ign), UserPatterns(<<>>), FALSE) :
         scan_ignore' = p.ignore_patterns
  /\ invocations' = invocations + 1
  /\ UNCHANGED <<script_defaults, package_defaults, tokenVars, diskVars, walkVars,
                 urlVars, runVars>>

NextSession == ScriptScan \/ PackageParse

SpecSession == InitSession /\ [][NextSession]_vars

(***************************************************************************)
(* Invocations of ingest.py's ingest that share the temporary base         *)
(***************************************************************************)
\* The ids uuid4 gives the invocations, one each.
InvocationIds == { <<"i">>, <<"j">>, <<"k">> }

\* The local source directory and the file in it.
LocalSource == << SEP, "p" >>
LocalSourcePaths == { LocalSource, pathjoin(LocalSource, N_a) }

\* The sources an invocation may be given.
InvocationSources == { URL_REPO, URL_SUB, LocalSource }

\* The path and everything below it.
Subtree(paths, root) ==
  { q \in paths : q = root \/ StartsWith(q, root \o <<SEP>>) }

\* Where the process stands in the disk: local_path is relative to it.
ClonePath(local_path) == abspath(local_path, CWD_WORK)

\* os.makedirs(parent_dir, exist_ok=True): the directory named by the id
\* and the temporary base above it.
MadeDirs(local_path) ==
  { dirname(dirname(ClonePath(local_path))), dirname(ClonePath(local_path)) }

\* What the clone leaves on the disk: the directory and a file in it, with
\* the directories above it.
Materialized(local_path) ==
  MadeDirs(local_path) \cup { ClonePath(local_path), pathjoin(ClonePath(local_path), N_a) }

\* str(Path(query['local_path']).parents[1]), as a path of the disk.
cleanup_path(local_path) == dirname(dirname(ClonePath(local_path)))

NotStarted == [state |-> "not started", local_path |-> <<>>]

InitDisk ==
  /\ disk = LocalSourcePaths
  /\ phase = [id \in InvocationIds |-> NotStarted]
  /\ TokensIdle
  /\ SessionIdle
  /\ WalkIdle
  /\ UrlIdle
  /\ RunIdle

\* An invocation on a repository parses its locator and makes the
\* directory its clone is to go to.
IngestMakesDir ==
  /\ \E id \in InvocationIds, locator \in {URL_REPO, URL_SUB} :
       /\ phase[id] = NotStarted
       /\ phase' = [phase EXCEPT ![id] =
                      [state |-> "made",
                       local_path |-> parse_url(locator, id).local_path]]
       /\ disk' = disk \cup MadeDirs(parse_url(locator, id).local_path)
  /\ UNCHANGED <<tokenVars, sessionVars, walkVars, urlVars, runVars>>

\* The invocation clones the repository.
IngestClones ==
  /\ \E id \in InvocationIds :
       /\ phase[id].state = "made"
       /\ phase' = [phase EXCEPT ![id].state = "cloned"]
       /\ disk' = disk \cup Materialized(phase[id].local_path)
  /\ UNCHANGED <<tokenVars, sessionVars, walkVars, urlVars, runVars>>

\* An invocation on the local source scans it: its query has no url, and
\* the finally clause removes nothing.
IngestLocal ==
  /\ \E id \in InvocationIds :
       /\ phase[id] = NotStarted
       /\ phase' = [phase EXCEPT ![id] = [state |-> "over", local_path |-> LocalSource]]
  /\ UNCHANGED <<disk, tokenVars, sessionVars, walkVars, urlVars, runVars>>

\* The finally clause of an invocation on a repository, the clone made or
\* failed: safe_rmtree.
IngestCleansUp ==
  /\ \E id \in InvocationIds :
       /\ phase[id].state \in {"made", "cloned"}
       /\ phase' = [phase EXCEPT ![id].state = "over"]
       /\ disk' = disk \ Subtree(disk, cleanup_path(phase[id].local_path))
  /\ UNCHANGED <<tokenVars, sessionVars, walkVars, urlVars, runVars>>

NextDisk == IngestMakesDir \/ IngestClones \/ IngestLocal \/ IngestCleansUp

SpecDisk == InitDisk /\ [][NextDisk]_vars

(***************************************************************************)
(* The digest of __main__.py and the digests the pipelines are run on      *)
(***************************************************************************)
\* __main__.py's create_tree_structure: one line per file, in the order of
\* the sorted relative paths, indented by the number of its directories.
RECURSIVE script_tree_lines(_)
script_tree_lines(paths) ==
  IF paths = <<>> THEN <<>>
  ELSE LET parts == Split(Head(paths), SEP)
           level == Len(parts) - 1
       IN FlattenSeqs([i \in 1..level |-> IndentLast])
            \o (IF level > 0 THEN ConnectorLast ELSE <<>>)
            \o parts[Len(parts)] \o <<NL>>
            \o script_tree_lines(Tail(paths))

script_create_tree_structure(files_info) ==
  DirectoryStructure
    \o script_tree_lines(Sorted({ files_info[i].path : i \in DOMAIN files_info }))

\* file['path'].lower().endswith('readme.md')
EndsWithReadme(file) ==
  EndsWith(StrLower(file.path), SubSeq(README_PATH, 2, Len(README_PATH)))

\* The content string of __main__.py's ingest: the first file whose path
\* ends with readme.md, then the files whose path does not.
script_content(files_info) ==
  LET firsts == SelectSeq(files_info, EndsWithReadme)
      first == IF firsts = <<>> THEN <<>> ELSE FileBlock(firsts[1])
      others == SelectSeq(files_info, LAMBDA file : ~EndsWithReadme(file))
  IN first \o FlattenSeqs([i \in 1..Len(others) |-> FileBlock(others[i])])

UNKNOWN == << "U", "n", "k", "n", "o", "w", "n" >>

\* estimate_tokens, given the count the tokenizer returned; -1: it raises.
estimate_tokens(token_count) ==
  IF token_count < 0 THEN UNKNOWN ELSE generate_token_string(token_count)

\* The summary of __main__.py's ingest.
script_summary(repo_name, total_files, token_count) ==
  RepositoryPrefix \o repo_name \o <<NL>>
    \o FilesAnalyzedPrefix \o IntToStr(total_files) \o <<NL>>
    \o Tail(EstimatedTokensPrefix) \o estimate_tokens(token_count) \o <<NL>>

\* What __main__.py's ingest makes of the files scan_directory returned.
ScriptDigest(repo_name, files_info, token_count) ==
  [summary |-> script_summary(repo_name, Len(files_info), token_count),
   tree |-> script_create_tree_structure(files_info),
   content |-> script_content(files_info),
   files |-> files_info]

\* _ingest_directory, given the tree _scan_directory returned.
PackageDigest(q, scanned, token_count) ==
  [summary |-> IF token_count < 0 THEN create_summary_string(q, scanned)
               ELSE create_summary_string(q, scanned) \o EstimatedTokensPrefix
                      \o generate_token_string(token_count),
   tree |-> DirectoryStructure \o create_tree_structure(q, scanned, <<>>, TRUE),
   content |-> create_file_content_string(
                 extract_files_content(q, scanned, q.max_file_size)),
   files |-> extract_files_content(q, scanned, q.max_file_size)]

\* The scans the pipelines are run on.  P_ROOT holds a.txt; or README.md,
\* a.txt, readme.md and the directory s with s/readme.md.
P_ROOT == << SEP, "p" >>
YO == << "y", "o" >>

TextFile(root, names, text) ==
  FileNode(names[Len(names)], Len(text), text, Under(root, names))

RECURSIVE DirOf(_, _)
DirOf(node, children) ==
  IF children = <<>> THEN node
  ELSE DirOf(IF Head(children).type = "file" THEN AddFile(node, Head(children))
             ELSE AddSubdir(node, Head(children), <<>>),
             Tail(children))

PackageScans ==
  { DirOf(EmptyDirNode(P_ROOT), << TextFile(P_ROOT, <<N_a>>, HELLO) >>),
    DirOf(EmptyDirNode(P_ROOT),
          << TextFile(P_ROOT, <<N_README>>, <<"h", "i">>),
             TextFile(P_ROOT, <<N_a>>, HELLO),
             TextFile(P_ROOT, <<N_readme>>, YO),
             DirOf(EmptyDirNode(Under(P_ROOT, <<N_s>>)),
                   << TextFile(P_ROOT, <<N_s, N_readme>>, <<"x">>) >>) >>) }

ScriptFile(names, text) == [path |-> Join(names, <<SEP>>), content |-> text]

ScriptScans ==
  { << ScriptFile(<<N_a>>, HELLO) >>,
    << ScriptFile(<<N_README>>, <<"h", "i">>),
       ScriptFile(<<N_a>>, HELLO),
       ScriptFile(<<N_readme>>, YO),
       ScriptFile(<<N_s, N_readme>>, <<"x">>) >> }

PipelineTokenCounts == {-1, 12}

PipelineQuery == LocalQueryAt(P_ROOT, ID_I, 10, <<>>, <<>>)

\* The digests a pipeline may come to.
Digests(i) ==
  IF i = "package"
  THEN { PackageDigest(PipelineQuery, scanned, t) :
           scanned \in PackageScans, t \in PipelineTokenCounts }
  ELSE { ScriptDigest(Tail(P_ROOT), files_info, t) :
           files_info \in ScriptScans, t \in PipelineTokenCounts }

\* What can be wrong with the arguments: the locator's path has fewer than
\* two segments, a pattern holds a character that is not allowed, the local
\* path does not exist.
Defects == {"none", "locator", "pattern", "nopath"}

(***************************************************************************)
(* ingest (ingest.py, __main__.py): the pipeline around the walk and the   *)
(* cleanup of the temporary directory                                      *)
(***************************************************************************)
\* The entries of the temporary directory: the directory itself, the .git
\* directory of the clone and a file of the work tree.  An entry is "plain"
\* (it can be removed), "readonly" (it can be removed once chmod has made it
\* writable), "denied" (chmod raises PermissionError and removal fails) or
\* "busy" (removal fails whatever its permissions).
Modes == {"plain", "readonly", "denied", "busy"}
CloneEntries == {"git", "file"}

\* The classes an exception is an instance of.
Classes(e) ==
  CASE e = "PermissionError" -> {"PermissionError", "OSError", "Exception"}
    [] e = "FileNotFoundError" -> {"FileNotFoundError", "OSError", "Exception"}
    [] OTHER -> {e, "Exception"}

\* An except clause: the classes it names and where control goes from it.
Handler(classes, to) == [classes |-> classes, to |-> to]

\* Where exception e raised under the handlers of chain, the innermost
\* first, takes control; "escape" when none of them catches it.
RECURSIVE Catch(_, _)
Catch(e, chain) ==
  IF chain = <<>> THEN "escape"
  ELSE IF Classes(e) \cap Head(chain).classes # {} THEN Head(chain).to
  ELSE Catch(e, Tail(chain))

Restrict(t, names) == [n \in names |-> t[n]]

\* chmod of the entries named: a read-only entry becomes writable.
Chmod(t, names) ==
  [n \in DOMAIN t |-> IF n \in names /\ t[n] = "readonly" THEN "plain" ELSE t[n]]

\* shutil.rmtree(<entry>, ignore_errors=True) for an entry inside.
RmtreeItem(t, name) ==
  IF name \in DOMAIN t /\ t[name] = "plain" THEN Restrict(t, DOMAIN t \ {name}) ELSE t

\* What can be removed inside the directory is; the directory itself stays.
RmtreeContents(t) ==
  IF "dir" \notin DOMAIN t THEN t
  ELSE Restrict(t, { n \in DOMAIN t \ {"dir"} : t[n] # "plain" } \cup {"dir"})

\* shutil.rmtree(<directory>, ignore_errors=True): what can be removed is,
\* and the directory itself when nothing is left in it.
Rmtree(t) ==
  IF "dir" \notin DOMAIN t THEN t
  ELSE LET kept == { n \in DOMAIN t \ {"dir"} : t[n] # "plain" }
       IN IF kept = {} /\ t["dir"] = "plain" THEN NoTemp
          ELSE Restrict(t, kept \cup {"dir"})

\* History: the directory holds an entry that cannot be removed, or whose
\* permissions cannot be changed.
Stuck(t) == IF \E n \in DOMAIN t : t[n] \in {"denied", "busy"} THEN {"entry"} ELSE {}

\* ingest is called.
InitRun ==
  /\ impl \in {"package", "script"}
  /\ source \in {"remote", "local"}
  /\ handle = "none"
  /\ registered = FALSE
  /\ rpc = "start"
  /\ cpc = "none"
  /\ temp = NoTemp
  /\ exc = "none"
  /\ escaped = FALSE
  /\ faults = {}
  /\ cleanups = 0
  /\ caller \in {"library", "cli"}
  /\ caller = "cli" => impl = "package"
  /\ defect \in Defects
  /\ defect = "locator" => source = "remote"
  /\ defect = "nopath" => source = "local"
  /\ output \in BOOLEAN
  /\ caller = "cli" => output
  /\ digest = NoDigest
  /\ outfile = NoFile
  /\ log = <<>>
  /\ WalkIdle
  /\ UrlIdle
  /\ SideIdle

Raise(e) == exc' = e /\ rpc' = "except"

\* parse_query (ingest.py), parse_github_url (__main__.py): the source is
\* understood, or ValueError.  __main__.py takes a local source as it is.
ParseRejects(i, src, d) ==
  \/ d = "locator" /\ src = "remote"
  \/ d = "pattern" /\ i = "package"

RunParse ==
  /\ rpc = "start"
  /\ IF ParseRejects(impl, source, defect)
     THEN /\ Raise("ValueError")
          /\ handle' = handle
     ELSE /\ handle' = IF impl = "package" THEN source ELSE "none"
          /\ rpc' = IF source = "remote" THEN "mktemp" ELSE "scan"
          /\ exc' = exc
  /\ UNCHANGED <<impl, source, registered, cpc, temp, escaped, faults, cleanups,
                 walkVars, urlVars, sideVars, runHist>>

\* The directory of the clone is made: os.makedirs and
\* set_writable_permissions (ingest.py); tempfile.mkdtemp, os.chmod and
\* atexit.register (__main__.py), where os.chmod may raise.
RunMakeTemp ==
  /\ rpc = "mktemp"
  /\ \/ /\ Raise("OSError")
        /\ UNCHANGED <<temp, handle, registered>>
     \/ /\ impl = "script"
        /\ \E m \in {"plain", "busy"} : temp' = [n \in {"dir"} |-> m]
        /\ handle' = "remote"
        /\ Raise("PermissionError")
        /\ UNCHANGED registered
     \/ /\ \E m \in {"plain", "busy"} : temp' = [n \in {"dir"} |-> m]
        /\ handle' = "remote"
        /\ registered' = (impl = "script")
        /\ rpc' = "clone"
        /\ exc' = exc
  /\ faults' = faults \cup Stuck(temp')
  /\ UNCHANGED <<impl, source, cpc, escaped, cleanups, walkVars, urlVars, sideVars, runHist>>

\* The fetch without a look at how it ended.
AfterCloneAnyway(ok) == "scan"

\* Where control goes when clone_repo is over: on to the scan when it
\* returned, to the except clause when it raised.
AfterClone(ok) == IF ok THEN "scan" ELSE "except"

\* clone_repo: the repository is fetched, or the fetch fails and leaves what
\* it had written.
RunClone ==
  /\ rpc = "clone"
  /\ \/ /\ \E modes \in [CloneEntries -> Modes] :
             temp' = [n \in DOMAIN temp \cup CloneEntries |->
                        IF n \in CloneEntries THEN modes[n] ELSE temp[n]]
        /\ rpc' = AfterClone(TRUE)
        /\ exc' = exc
        /\ log' = Append(log, "fetched")
     \/ /\ \E m \in Modes : temp' = [n \in DOMAIN temp \cup {"git"} |->
                                       IF n = "git" THEN m ELSE temp[n]]
        /\ rpc' = AfterClone(FALSE)
        /\ exc' = "RuntimeError"
        /\ log' = Append(log, "fetch failed")
     \/ /\ temp' = temp
        /\ rpc' = AfterClone(FALSE)
        /\ exc' = "RuntimeError"
        /\ log' = Append(log, "fetch failed")
  /\ faults' = faults \cup Stuck(temp')
  /\ UNCHANGED <<impl, source, handle, registered, cpc, escaped, cleanups,
                 walkVars, urlVars, sideVars, caller, defect, output, digest, outfile>>

\* ingest_from_query (ingest.py), scan_directory and the rendering
\* (__main__.py): the digest, or an exception.
\* A path that does not exist: ingest_from_query raises before any scan;
\* __main__.py's scan_directory walks nothing and returns no file.
RunScan ==
  /\ rpc = "scan"
  /\ IF defect = "nopath"
     THEN IF impl = "package"
          THEN /\ Raise("ValueError")
               /\ UNCHANGED <<digest, log>>
          ELSE /\ \E t \in PipelineTokenCounts :
                    digest' = ScriptDigest(Tail(P_ROOT), <<>>, t)
               /\ log' = Append(log, "scan")
               /\ rpc' = "write"
               /\ exc' = exc
     ELSE \/ /\ \E d \in Digests(impl) : digest' = d
             /\ log' = Append(log, "scan")
             /\ rpc' = "write"
             /\ exc' = exc
          \/ /\ Raise("ValueError")
             /\ log' = Append(log, "scan")
             /\ digest' = digest
  /\ UNCHANGED <<impl, source, handle, registered, cpc, temp, escaped, faults,
                 cleanups, walkVars, urlVars, sideVars, caller, defect, output, outfile>>

\* f.write(f"{tree}\n{content}") of ingest.py.
LibraryFile(d) == d.tree \o <<NL>> \o d.content

\* f.write(f"{summary}\n\n{tree}\n\n{content}") of __main__.py and cli.py.
DigestFile(d) == d.summary \o <<NL, NL>> \o d.tree \o <<NL, NL>> \o d.content

\* The output file is written (or none was asked for), or open raises.
RunWrite ==
  /\ rpc = "write"
  /\ IF output
     THEN \/ /\ outfile' = IF impl = "package" THEN LibraryFile(digest)
                            ELSE DigestFile(digest)
             /\ log' = Append(log, "write")
             /\ rpc' = "finally"
             /\ exc' = exc
          \/ /\ Raise("OSError")
             /\ UNCHANGED <<outfile, log>>
     ELSE /\ rpc' = "finally"
          /\ exc' = exc
          /\ UNCHANGED <<outfile, log>>
  /\ UNCHANGED <<impl, source, handle, registered, cpc, temp, escaped, faults,
                 cleanups, walkVars, urlVars, sideVars, caller, defect, output, digest>>

\* cli.py's main, once ingest has returned: it writes the output file again.
\* When ingest raised, main aborts and writes nothing.
CliWrite ==
  /\ caller = "cli"
  /\ rpc = "returned"
  /\ \/ /\ outfile' = DigestFile(digest)
        /\ log' = Append(log, "write")
        /\ rpc' = "cli done"
     \/ /\ rpc' = "cli aborted"
        /\ UNCHANGED <<outfile, log>>
  /\ UNCHANGED <<impl, source, handle, registered, cpc, temp, exc, escaped, faults,
                 cleanups, walkVars, urlVars, sideVars, caller, defect, output, digest>>

\* `if query and query.get('url')` (ingest.py).
CleanupDue(h) == h = "remote"

\* `if temp_dir and os.path.exists(temp_dir)` (__main__.py).
TempDirThere(h, t) == h = "remote" /\ "dir" \in DOMAIN t

\* How ingest ends: it returns, or an exception leaves it.
Outcome == IF exc = "none" /\ ~escaped THEN "returned" ELSE "raised"

\* Control goes where Catch says; an exception no handler catches leaves
\* the cleanup.
Goto(target) ==
  IF target = "escape" THEN escaped' = TRUE /\ cpc' = "end"
  ELSE escaped' = escaped /\ cpc' = target

\* The except clause: ingest.py wraps the exception in a RuntimeError;
\* __main__.py calls cleanup_temp_dir when the directory is there, then
\* raises the exception again.
RunExcept ==
  /\ rpc = "except"
  /\ cpc = "none"
  /\ IF impl = "script" /\ TempDirThere(handle, temp)
     THEN /\ cpc' = "chdir"
          /\ cleanups' = cleanups + 1
          /\ UNCHANGED <<rpc, exc>>
     ELSE /\ rpc' = "finally"
          /\ exc' = IF impl = "package" THEN "RuntimeError" ELSE exc
          /\ UNCHANGED <<cpc, cleanups>>
  /\ UNCHANGED <<impl, source, handle, registered, temp, escaped, faults,
                 walkVars, urlVars, sideVars, runHist>>

\* The finally clause: ingest.py calls safe_rmtree when the query has a
\* url; __main__.py calls cleanup_temp_dir, which returns at once when
\* there is no directory.
RunFinally ==
  /\ rpc \in {"finally"}
  /\ cpc = "none"
  /\ IF impl = "package"
     THEN IF CleanupDue(handle)
          THEN cpc' = "perm_root" /\ cleanups' = cleanups + 1 /\ rpc' = rpc
          ELSE cpc' = cpc /\ cleanups' = cleanups /\ rpc' = Outcome
     ELSE /\ cpc' = IF TempDirThere(handle, temp) THEN "chdir" ELSE "end"
          /\ cleanups' = cleanups + 1
          /\ rpc' = rpc
  /\ UNCHANGED <<impl, source, handle, registered, temp, exc, escaped, faults,
                 walkVars, urlVars, sideVars, runHist>>

\* The interpreter exits: atexit calls cleanup_temp_dir once more.
RunAtExit ==
  /\ rpc \in {"returned", "raised"}
  /\ registered
  /\ rpc' = "atexit"
  /\ cpc' = IF TempDirThere(handle, temp) THEN "chdir" ELSE "end"
  /\ cleanups' = cleanups + 1
  /\ UNCHANGED <<impl, source, handle, registered, temp, exc, escaped, faults,
                 walkVars, urlVars, sideVars, runHist>>

PermissionOrOS == {"PermissionError", "OSError"}

\* set_writable_permissions, the root: stat and chmod of the path.
PermRoot ==
  /\ cpc = "perm_root"
  /\ LET chain == << Handler(PermissionOrOS, "rmtree"), Handler({"Exception"}, "end") >>
     IN IF "dir" \notin DOMAIN temp
        THEN Goto(Catch("FileNotFoundError", chain)) /\ temp' = temp
        ELSE IF temp["dir"] = "denied"
        THEN Goto(Catch("PermissionError", chain)) /\ temp' = temp
        ELSE Goto("perm_items") /\ temp' = Chmod(temp, {"dir"})
  /\ UNCHANGED <<impl, source, handle, registered, rpc, exc, faults, cleanups,
                 walkVars, urlVars, sideVars, runHist>>

\* set_writable_permissions, the loop over path.rglob('*'): a chmod that
\* raises is caught inside the loop, which goes on.
PermItems ==
  /\ cpc = "perm_items"
  /\ temp' = Chmod(temp, DOMAIN temp \ {"dir"})
  /\ IF \E n \in DOMAIN temp \ {"dir"} : temp[n] = "denied"
     THEN Goto(Catch("PermissionError",
                     << Handler(PermissionOrOS, "rmtree"),
                        Handler(PermissionOrOS, "rmtree"),
                        Handler({"Exception"}, "end") >>))
     ELSE Goto("rmtree")
  /\ UNCHANGED <<impl, source, handle, registered, rpc, exc, faults, cleanups,
                 walkVars, urlVars, sideVars, runHist>>

\* os.chdir(original_cwd), which raises when that directory is gone.
Chdir ==
  /\ cpc = "chdir"
  /\ \/ Goto("git") /\ faults' = faults
     \/ /\ Goto(Catch("FileNotFoundError", << Handler({"Exception"}, "last_try") >>))
        /\ faults' = faults \cup {"chdir"}
  /\ UNCHANGED <<impl, source, handle, registered, rpc, temp, exc, cleanups,
                 walkVars, urlVars, sideVars, runHist>>

\* The .git directory: git clean, git gc and rmtree, skipped when git
\* cannot be run.
GitCleanup ==
  /\ cpc = "git"
  /\ \/ /\ temp' = RmtreeItem(temp, "git")
        /\ Goto("walk_chmod")
     \/ /\ "git" \in DOMAIN temp
        /\ temp' = temp
        /\ Goto(Catch("FileNotFoundError",
                      << Handler({"Exception"}, "walk_chmod"),
                         Handler({"Exception"}, "last_try") >>))
  /\ UNCHANGED <<impl, source, handle, registered, rpc, exc, faults, cleanups,
                 walkVars, urlVars, sideVars, runHist>>

\* The first os.walk: chmod 0o777 of every file and directory inside.
WalkChmod ==
  /\ cpc = "walk_chmod"
  /\ temp' = Chmod(temp, DOMAIN temp \ {"dir"})
  /\ IF \E n \in DOMAIN temp \ {"dir"} : temp[n] = "denied"
     THEN Goto(Catch("PermissionError",
                     << Handler({"Exception"}, "walk_remove"),
                        Handler({"Exception"}, "last_try") >>))
     ELSE Goto("walk_remove")
  /\ UNCHANGED <<impl, source, handle, registered, rpc, exc, faults, cleanups,
                 walkVars, urlVars, sideVars, runHist>>

\* The second os.walk: os.remove of every file.
WalkRemove ==
  /\ cpc = "walk_remove"
  /\ temp' = RmtreeItem(temp, "file")
  /\ IF "file" \in DOMAIN temp /\ temp["file"] # "plain"
     THEN Goto(Catch("PermissionError",
                     << Handler({"Exception"}, "rmtree"),
                        Handler({"Exception"}, "last_try") >>))
     ELSE Goto("rmtree")
  /\ UNCHANGED <<impl, source, handle, registered, rpc, exc, faults, cleanups,
                 walkVars, urlVars, sideVars, runHist>>

\* shutil.rmtree(path, ignore_errors=True) of the whole directory.
RmtreeAll ==
  /\ cpc = "rmtree"
  /\ temp' = Rmtree(temp)
  /\ Goto("end")
  /\ UNCHANGED <<impl, source, handle, registered, rpc, exc, faults, cleanups,
                 walkVars, urlVars, sideVars, runHist>>

\* "Try one last time with a delay": rmtree alone.
LastTry ==
  /\ cpc = "last_try"
  /\ temp' = Rmtree(temp)
  /\ Goto("end")
  /\ UNCHANGED <<impl, source, handle, registered, rpc, exc, faults, cleanups,
                 walkVars, urlVars, sideVars, runHist>>

\* The cleanup returns to where it was called.
CleanupReturns ==
  /\ cpc = "end"
  /\ cpc' = "none"
  /\ rpc' = CASE rpc = "except" -> "finally"
              [] rpc = "finally" -> Outcome
              [] OTHER -> "exited"
  /\ UNCHANGED <<impl, source, handle, registered, temp, exc, escaped, faults,
                 cleanups, walkVars, urlVars, sideVars, runHist>>

NextRun ==
  \/ RunParse
  \/ RunMakeTemp
  \/ RunClone
  \/ RunScan
  \/ RunWrite
  \/ CliWrite
  \/ RunExcept
  \/ RunFinally
  \/ RunAtExit
  \/ PermRoot
  \/ PermItems
  \/ Chdir
  \/ GitCleanup
  \/ WalkChmod
  \/ WalkRemove
  \/ RmtreeAll
  \/ LastTry
  \/ CleanupReturns

SpecIngest == InitRun /\ [][NextRun]_vars

(***************************************************************************)
(* Properties of the walk and of the digest                                *)
(***************************************************************************)
\* Every node of the tree under node, node included.
RECURSIVE Descendants(_)
Descendants(node) ==
  {node} \cup UNION { Descendants(node.children[i]) : i \in 1..Len(node.children) }

FilesUnder(node) == { n \in Descendants(node) : n.type = "file" }
DirsUnder(node) == { n \in Descendants(node) : n.type = "directory" }

\* The results under construction and the result returned.
ResultsSoFar == { stack[i].result : i \in 1..Len(stack) } \cup {nodes}

Walked == pc \in {"scanned", "done"}

\* The root of the query, against which its patterns are written.
QueryRoot == CleanPath(query.local_path, cwd)

\* C1: no file whose path under the query's root matches an ignore pattern is
\* a node of the returned tree (the content's blocks are those of the tree's
\* file nodes) or is counted in a file_count (the summary's "Files analyzed"
\* is the root's file_count).
C1_ExcludedFileAbsent ==
  pc = "done" =>
    /\ \A n \in FilesUnder(nodes) :
         ~should_exclude(n.path, QueryRoot, query.ignore_patterns)
    /\ nodes.file_count =
         Cardinality({ n \in FilesUnder(nodes) :
                         ~should_exclude(n.path, QueryRoot, query.ignore_patterns) })

\* C2: with include patterns, at every point of the walk no directory with a
\* file_count of 0 (the placeholder of a visited directory included) is among
\* the children of a directory, every file_count is the number of files in
\* the subtree, and every dir_count is the number of directories kept below.
C2_EmptySubdirDropped ==
  query.include_patterns # <<>> =>
    \A r \in ResultsSoFar : \A n \in DirsUnder(r) :
      /\ \A i \in 1..Len(n.children) :
           n.children[i].type = "directory" => n.children[i].file_count > 0
      /\ n.file_count = Cardinality(FilesUnder(n))
      /\ n.dir_count = Cardinality(DirsUnder(n) \ {n})

C2_Witness ==
  /\ pc = "done"
  /\ query.include_patterns # <<>>
  /\ {"dropped", "revisit", "admitted"} \subseteq events

\* The readme a claim about the first block is about: a text file directly in
\* the scan root, named readme.md in any case, its text not empty and shown.
RootReadmes ==
  { i \in 1..Len(nodes.children) :
      LET n == nodes.children[i]
      IN /\ n.type = "file"
         /\ StrLower(n.name) = <<"r", "e", "a", "d", "m", "e", ".", "m", "d">>
         /\ n.content # NonTextSentinel
         /\ n.content # <<>>
         /\ n.size <= query.max_file_size }

\* C3: when the scan root holds such a readme, its block is the first block
\* of the content, for a local source and for a cloned one.
C3_ReadmeFirst ==
  pc = "done" =>
    \A i \in RootReadmes :
      \E k \in 1..Len(files) :
        /\ files[k].content = nodes.children[i].content
        /\ EndsWith(files[k].path, nodes.children[i].name)
        /\ StartsWith(content, FileBlock(files[k]))

RECURSIVE SumSizes(_)
SumSizes(paths) ==
  IF paths = <<>> THEN 0 ELSE getsize(fs, Head(paths)) + SumSizes(Tail(paths))

\* C4: at every point of the walk stats['total_size'] is the sum of the sizes
\* of the files admitted so far and is at most MAX_TOTAL_SIZE_BYTES.
C4_TotalSizeBounded ==
  /\ stats.total_size = SumSizes(admitted)
  /\ stats.total_size <= MAX_TOTAL_SIZE_BYTES

C4_Witness ==
  /\ pc = "done"
  /\ "size_skip" \in events
  /\ Len(admitted) >= 2
  /\ stats.total_size = MAX_TOTAL_SIZE_BYTES

IsPrefix(s, t) == Len(s) <= Len(t) /\ SubSeq(t, 1, Len(s)) = s

AdmittedInResult ==
  \A i \in 1..Len(admitted) :
    \E n \in FilesUnder(nodes) : n.path = admitted[i]

\* C5: the number of admitted files never exceeds MAX_FILES; once it equals
\* MAX_FILES no step admits another file; the admitted files only grow, and
\* each of them is a node of the result returned.
C5_FileCeiling ==
  /\ [](/\ Len(admitted) <= MAX_FILES
        /\ stats.total_files = Len(admitted)
        /\ (Walked => AdmittedInResult))
  /\ [][/\ IsPrefix(admitted, admitted')
        /\ (Len(admitted) = MAX_FILES => admitted' = admitted)]_vars

C5_Witness ==
  /\ pc = "done"
  /\ "file_limit" \in events
  /\ Len(admitted) = MAX_FILES
  /\ AdmittedInResult

\* The scanned directory is a local one that holds the file a.txt with the
\* body "hello" and nothing else, and no pattern of the call touches a.txt.
OnlyATxt ==
  /\ query.url = None
  /\ DOMAIN fs = {QueryRoot, pathjoin(QueryRoot, N_a)}
  /\ fs[pathjoin(QueryRoot, N_a)] = FileEntry(HELLO)
  /\ query.include_patterns = <<>>
  /\ ~MatchesAnyIgnore(N_a, query.ignore_patterns)

HelloBlock ==
  [i \in 1..48 |-> "="] \o <<NL>>
    \o << "F", "i", "l", "e", ":", " ", "/", "a", ".", "t", "x", "t", NL >>
    \o [i \in 1..48 |-> "="] \o <<NL>>
    \o << "h", "e", "l", "l", "o", NL, NL >>

TreeHeader ==
  << "D", "i", "r", "e", "c", "t", "o", "r", "y", " ",
     "s", "t", "r", "u", "c", "t", "u", "r", "e", ":", NL >>

RECURSIVE Placed(_, _)
Placed(node, flags) ==
  {[node |-> node, flags |-> flags]}
    \cup UNION { Placed(node.children[i], Append(flags, i = Len(node.children))) :
                   i \in 1..Len(node.children) }

RECURSIVE Indents(_)
Indents(flags) ==
  IF flags = <<>> THEN <<>>
  ELSE (IF Head(flags) THEN << " ", " ", " ", " " >> ELSE << BOX_V, " ", " ", " " >>)
         \o Indents(Tail(flags))

\* The line of a placed node when the first `skip` levels carry no prefix.
LineOf(p, skip) ==
  LET d == Len(p.flags) - 1
      shown == IF p.node.name = <<>> THEN query.slug ELSE p.node.name
  IN Indents(SubSeq(p.flags, 1 + skip, d))
       \o (IF p.flags[d + 1] THEN << BOX_UR, BOX_H, BOX_H, " " >>
           ELSE << BOX_VR, BOX_H, BOX_H, " " >>)
       \o shown \o (IF p.node.type = "directory" THEN <<SEP>> ELSE <<>>)

\* The lines of the rendered tree below its header.
TreeLines ==
  LET treeBody == SubSeq(tree, Len(TreeHeader) + 1, Len(tree))
  IN IF treeBody = <<>> THEN <<>>
     ELSE Split(SubSeq(treeBody, 1, Len(treeBody) - 1), NL)

AllPlaced == Placed(nodes, <<TRUE>>)
RootShown == nodes.name # <<>> \/ query.slug # <<>>

OneLinePerNode ==
  /\ Len(TreeLines) = Cardinality(AllPlaced)
  /\ \A p \in AllPlaced : \E i \in 1..Len(TreeLines) : TreeLines[i] = LineOf(p, 0)

\* C7 as stated: the rendered tree has one line per node of the scanned tree,
\* and the line of a node at depth d has d prefixes before its connector.
C7_LinePerNode == pc = "done" => OneLinePerNode

\* C7 amended: that holds when the root has a name or the query a slug; when
\* both are empty the root has no line, every other node has one, and the
\* line of a node at depth d has d - 1 prefixes before its connector.
C7_LinePerShownNode ==
  pc = "done" =>
    IF RootShown THEN OneLinePerNode
    ELSE /\ Len(TreeLines) = Cardinality(AllPlaced) - 1
         /\ \A p \in AllPlaced :
              Len(p.flags) > 1 => \E i \in 1..Len(TreeLines) : TreeLines[i] = LineOf(p, 1)

\* A nameless root above a directory that is not a last child and has a child.
C7_Witness ==
  /\ pc = "done"
  /\ ~RootShown
  /\ \E p \in AllPlaced :
       /\ Len(p.flags) = 3
       /\ ~p.flags[2]
       /\ \E i \in 1..Len(TreeLines) : TreeLines[i] = LineOf(p, 1)

ExpandedOnce ==
  \A i, j \in 1..Len(expanded) : expanded[i] = expanded[j] => i = j

RevisitsAreEmpty ==
  \A n \in revisits :
    n.type = "directory" /\ n.children = <<>> /\ n.size = 0 /\ n.file_count = 0

\* The walk can take a step.
CanStep ==
  \/ CanIngestRaise \/ CanScanStart \/ CanScanExcluded \/ CanScanNotIncluded
  \/ CanScanSizeSkip \/ CanScanFileLimit \/ CanScanAdmit \/ CanScanEnterDir
  \/ CanScanRevisit \/ CanScanNeither \/ CanScanReturn \/ CanScanFinish \/ CanRender

RECURSIVE PendingItems(_)
PendingItems(frames) ==
  IF frames = <<>> THEN 0 ELSE Len(Head(frames).items) + PendingItems(Tail(frames))

Directories == { p \in DOMAIN fs : fs[p].kind = "dir" }
\* No directory lists more entries than the file system holds.
Widest == Cardinality(DOMAIN fs)

\* What is left of a walk with the calls sk, the visited paths seen and the
\* position p: the directories not yet listed, each worth more than the
\* entries and the call it can add, the entries still to process, the calls
\* still to return and the stages still to go.
WorkLeft(sk, seen, p) ==
  (Widest + 2) * Cardinality(Directories \ seen)
    + PendingItems(sk) + Len(sk)
    + (CASE p = "start" -> 3 [] p = "scan" -> 2 [] p = "scanned" -> 1 [] OTHER -> 0)

\* C9: the walk ends, whatever links the tree holds: until it has returned or
\* raised it can take a step, and every step leaves less of the walk; no real
\* path is expanded twice; a second arrival at a visited directory yields a
\* directory node with no children, size 0 and file_count 0.
C9_WalkEnds ==
  /\ []((pc \in {"done", "raised"} \/ CanStep) /\ ExpandedOnce /\ RevisitsAreEmpty)
  /\ [][WorkLeft(stack', seen_paths', pc') < WorkLeft(stack, seen_paths, pc)]_vars

C9_Witness ==
  /\ pc = "done"
  /\ revisits # {}
  /\ Len(expanded) >= 3

\* The segments of the locator's path, scheme and host left out.
PathSegments(u) ==
  LET k == IF StartsWith(u, HTTPS) THEN Len(HTTPS)
           ELSE IF StartsWith(u, HTTP) THEN Len(HTTP) ELSE 0
      parts == Split(SubSeq(u, k + 1, Len(u)), SEP)
  IN SubSeq(parts, 2, Len(parts))

FortyHex(token) ==
  /\ Len(token) = 40
  /\ \A i \in 1..Len(token) :
       token[i] \in {"0", "1", "2", "3", "4", "5", "6", "7", "8", "9",
                     "a", "b", "c", "d", "e", "f", "A", "B", "C", "D", "E", "F"}

\* C8: the token after a third segment tree or blob is stored as commit, the
\* branch unset, exactly when it is 40 hexadecimal characters, and as branch,
\* the commit unset, otherwise; what follows it is the subpath; no commit and
\* no branch is set when the third segment is neither tree nor blob.
C8_RefAfterTreeOrBlob ==
  (parsed # NotParsed /\ ~Raised(parsed)) =>
    LET seg == PathSegments(url)
    IN IF Len(seg) >= 4 /\ seg[3] \in {TREE, BLOB}
       THEN /\ FortyHex(seg[4]) => parsed.commit = seg[4] /\ parsed.branch = None
            /\ ~FortyHex(seg[4]) => parsed.branch = seg[4] /\ parsed.commit = None
            /\ parsed.subpath = <<SEP>> \o Join(SubSeq(seg, 5, Len(seg)), <<SEP>>)
       ELSE IF Len(seg) < 3 \/ seg[3] \notin {TREE, BLOB}
       THEN parsed.commit = None /\ parsed.branch = None
       ELSE TRUE

\* ingest, called with a remote source, has returned or raised.
RemoteEnded == source = "remote" /\ rpc \in {"returned", "raised"}

RemoteOver ==
  /\ source = "remote"
  /\ \/ rpc = "exited"
     \/ rpc \in {"returned", "raised"} /\ ~registered

\* C11: in an invocation of ingest on a remote source the cleanup of the
\* temporary directory is called exactly once: never more than once while
\* ingest runs, and once, not zero times, when it is over.
C11_CleanupOnce ==
  /\ source = "remote" => cleanups <= 1
  /\ RemoteOver => cleanups = 1

\* The stages named e among the stages l.
Times(l, e) == Cardinality({ i \in 1..Len(l) : l[i] = e })

\* Every stage named e of l comes after a stage named d.
After(l, d, e) ==
  \A i \in 1..Len(l) : l[i] = e => \E j \in 1..(i - 1) : l[j] = d

\* C12: for a remote source the scan starts only after the fetch has
\* succeeded; after a failed fetch there is no second fetch, no scan and no
\* output file, and ingest does not return: it raises.
C12_ScanAfterFetch ==
  source = "remote" =>
    /\ After(log, "fetched", "scan")
    /\ Times(log, "fetched") + Times(log, "fetch failed") <= 1
    /\ Times(log, "fetch failed") = 1 =>
         /\ Times(log, "scan") = 0
         /\ Times(log, "write") = 0
         /\ outfile = NoFile
         /\ exc # "none"
         /\ rpc \in {"except", "finally", "raised", "atexit", "exited"}
         /\ rpc \in {"atexit", "exited"} => Outcome = "raised"

\* The fetch failed and ingest has raised.
C12_Witness ==
  /\ source = "remote"
  /\ Times(log, "fetch failed") = 1
  /\ rpc = "raised"

\* ingest is over and has returned to its caller.
Returned ==
  \/ rpc \in {"returned", "cli done", "cli aborted"}
  \/ rpc \in {"atexit", "exited"} /\ Outcome = "returned"

\* C13: when the locator's path has fewer than two segments, a pattern holds
\* a character that is not allowed or the path does not exist, nothing is
\* scanned, no output file is written and ingest does not return: it raises.
C13_RejectedBeforeScan ==
  defect # "none" =>
    /\ Times(log, "scan") = 0
    /\ Times(log, "write") = 0
    /\ outfile = NoFile
    /\ ~Returned

\* The call is over and has succeeded: ingest has returned to library code,
\* or cli.py's main has written its file.
Succeeded ==
  \/ caller = "library" /\ rpc \in {"returned", "atexit", "exited"} /\ Outcome = "returned"
  \/ caller = "cli" /\ rpc = "cli done"

\* The text f is the summary, the tree and the content of d in this order,
\* with nothing but line ends, one or two, between them.
InOrder(f, d) ==
  \E i, j \in 1..2 :
    f = d.summary \o [k \in 1..i |-> NL] \o d.tree \o [k \in 1..j |-> NL] \o d.content

\* C14: when an output path is given and the pipeline has succeeded, the
\* file at that path holds the summary, a blank line, the tree, a blank line
\* and the file contents, in this order.
C14_OutputInOrder == (output /\ Succeeded) => InOrder(outfile, digest)

(***************************************************************************)
(* Properties of the pattern lists                                         *)
(***************************************************************************)
\* The user-supplied pattern strings of the call.
UserStrings == Elements(args.ignore_patterns) \cup Elements(args.include_patterns)

\* Letters, digits and -_./+*
PatternCharacters == Digits \cup Upper \cup Lower \cup {"-", "_", ".", "/", "+", "*"}

\* The string holds a character that is none of these and none of chars.
HoldsInvalid(p, chars) ==
  \E k \in 1..Len(p) : p[k] \notin chars \cup PatternCharacters

\* The patterns of the returned query that come from the user.
UserPatternsHeld ==
  Elements(patterns.include_patterns)
    \cup (Elements(patterns.ignore_patterns)
           \ (Elements(args.defaults) \cup Elements(parse_gitignore(args.gitignore))))

PatternsParsed == args # NoArgs /\ patterns # NotParsed

\* C17 as stated: a user pattern with a character outside letters, digits
\* and -_./+* makes parse_query raise ValueError, and no query returned
\* holds a user pattern with such a character.
C17_InvalidPatternRejected ==
  PatternsParsed =>
    /\ (\E p \in UserStrings : HoldsInvalid(p, {})) => Raised(patterns)
    /\ ~Raised(patterns) => \A p \in UserPatternsHeld : ~HoldsInvalid(p, {})

\* C17 amended: that holds for every character other than the comma and the
\* space, at which a pattern string is split into several patterns.
C17_InvalidPatternRejectedButSeparators ==
  PatternsParsed =>
    /\ (\E p \in UserStrings : HoldsInvalid(p, PatternSeparators)) => Raised(patterns)
    /\ ~Raised(patterns) => \A p \in UserPatternsHeld : ~HoldsInvalid(p, {})

\* parse_query was given a pattern with an exclamation mark and has raised.
C17_Witness ==
  /\ PatternsParsed
  /\ << "x", "!", "y" >> \in Elements(args.ignore_patterns)
  /\ Raised(patterns)

NoDuplicate(l) == \A i, j \in 1..Len(l) : l[i] = l[j] => i = j

\* Where x is first seen in the list l.
FirstSeen(l, x) == CHOOSE i \in 1..Len(l) : l[i] = x /\ \A j \in 1..(i - 1) : l[j] # x

\* The elements of l are elements of seen, in the order they are first seen there.
FirstSeenOrder(l, seen) ==
  /\ Elements(l) \subseteq Elements(seen)
  /\ \A i, j \in 1..Len(l) : i < j => FirstSeen(seen, l[i]) <= FirstSeen(seen, l[j])

\* The ignore patterns in the order parse_query meets them: the defaults,
\* those of the ignore file, those of the user.
IgnoreSeen ==
  args.defaults \o parse_gitignore(args.gitignore)
    \o UserPatterns(args.ignore_patterns).patterns

\* C18: the ignore list and the include list of a query returned hold no
\* pattern twice, and their patterns are in first-seen order: defaults,
\* ignore-file patterns, user patterns.
C18_NoDuplicateFirstSeen ==
  (PatternsParsed /\ ~Raised(patterns)) =>
    /\ NoDuplicate(patterns.ignore_patterns)
    /\ NoDuplicate(patterns.include_patterns)
    /\ FirstSeenOrder(patterns.ignore_patterns, IgnoreSeen)
    /\ FirstSeenOrder(patterns.include_patterns,
                      UserPatterns(args.include_patterns).patterns)

(***************************************************************************)
(* Properties of the walk that involve the arguments of parse_query        *)
(***************************************************************************)
\* The scanner has the node's path matched by one of the patterns, taken
\* from the base path it uses in the node's directory.
MatchedBy(n, ignore_patterns) ==
  should_exclude(n.path, BasePath(dirname(n.path), query, cwd), ignore_patterns)

\* C15: whatever include patterns are given, no entry whose path matches an
\* ignore pattern of the call is a node of the scan result.
C15_ExcludeDominates ==
  pc = "done" =>
    \A n \in Descendants(nodes) \ {nodes} : ~MatchedBy(n, ignore_given)

(***************************************************************************)
(* Properties of the content block                                         *)
(***************************************************************************)
\* A separator line, the line File: <path>, a separator line, the content
\* and a blank line.
BlockOf(file) ==
  [i \in 1..48 |-> "="] \o <<NL>>
    \o << "F", "i", "l", "e", ":", " " >> \o file.path \o <<NL>>
    \o [i \in 1..48 |-> "="] \o <<NL>>
    \o file.content \o <<NL>> \o <<NL>>

HasContent(file) == file.content # None /\ file.content # <<>>

\* The blocks of the files of fl that have content, in order, file r left out.
BlocksBut(fl, r) ==
  FlattenSeqs([i \in 1..Len(fl) |->
                 IF i # r /\ HasContent(fl[i]) THEN BlockOf(fl[i]) ELSE <<>>])

\* C16: the content block holds the block of every admitted text file that
\* has content exactly once: at most one block of a readme first, then the
\* blocks of all the other files in scan order, none left out.
C16_EveryFileOnce ==
  digest # NoDigest =>
    \/ digest.content = BlocksBut(digest.files, 0)
    \/ \E r \in 1..Len(digest.files) :
         /\ HasContent(digest.files[r])
         /\ digest.content = BlockOf(digest.files[r]) \o BlocksBut(digest.files, r)

(***************************************************************************)
(* Properties of the files that have no content                            *)
(***************************************************************************)
Contains(s, sub) ==
  \E i \in 1..(Len(s) - Len(sub) + 1) : SubSeq(s, i, i + Len(sub) - 1) = sub

\* The files of the result that are binary or larger than max_file_size.
IsBinary(n) == ~fs[realpath(fs, n.path)].text
IsOversized(n) == n.size > query.max_file_size
Contentless == { n \in FilesUnder(nodes) : IsBinary(n) \/ IsOversized(n) }

RECURSIVE SumOfSizes(_)
SumOfSizes(ns) ==
  IF ns = {} THEN 0
  ELSE LET n == CHOOSE x \in ns : TRUE IN n.size + SumOfSizes(ns \ {n})

\* C19: a file of the result that is binary or larger than max_file_size is
\* counted in the file_count and the size of every directory above it and
\* has its line in the tree, but neither its name nor its content is in the
\* content string.
C19_ContentlessCounted ==
  pc = "done" =>
    /\ \A d \in DirsUnder(nodes) :
         /\ d.file_count = Cardinality(FilesUnder(d))
         /\ d.size = SumOfSizes(FilesUnder(d))
    /\ \A n \in Contentless :
         /\ getsize(fs, n.path) = n.size
         /\ \E c \in {ConnectorLast, ConnectorMid} : Contains(tree, c \o n.name \o <<NL>>)
         /\ ~Contains(content, n.name \o <<NL>>)
         /\ ~Contains(content, NonTextSentinel)
         /\ ~IsBinary(n) => ~Contains(content, fs[realpath(fs, n.path)].content)

\* The result holds a binary file and a text file larger than max_file_size,
\* and the content string has the block of another file.
C19_Witness ==
  /\ pc = "done"
  /\ \E n \in Contentless : IsBinary(n)
  /\ \E n \in Contentless : IsOversized(n) /\ ~IsBinary(n)
  /\ content # <<>>

(***************************************************************************)
(* Properties of the path the patterns are tested against                  *)
(***************************************************************************)
\* The file x.txt of the directory s under the query's root.
NestedFile == QueryRoot \o <<SEP>> \o N_s \o <<SEP>> \o N_x
NestedPattern == N_s \o <<SEP>> \o N_x

\* C20: the include patterns are tested against the path relative to the
\* root of the scan: every file of the result has its root-relative path
\* matched by an include pattern, and the include pattern s/x.txt, with no
\* ignore pattern, admits the file x.txt of the directory s.
C20_RootRelativeTested ==
  (pc = "done" /\ query.include_patterns # <<>>) =>
    /\ \A n \in FilesUnder(nodes) :
         should_include(n.path, QueryRoot, query.include_patterns)
    /\ ( /\ NestedPattern \in Elements(query.include_patterns)
         /\ query.ignore_patterns = <<>>
         /\ isfile(fs, NestedFile) )
         => \E n \in FilesUnder(nodes) : n.path = NestedFile

(***************************************************************************)
(* Properties of the directory-type ignore patterns                        *)
(***************************************************************************)
\* The ignore patterns of the call and of the default list that end in a
\* separator.
DirectoryPatterns ==
  { p \in Elements(ignore_given) \cup Elements(query.ignore_patterns) :
      EndsWith(p, <<SEP>>) }

\* The path under the query's root is the directory the pattern names or
\* lies below it.
NamedBy(path, p) ==
  \/ RelPath(path, QueryRoot) = RStrip(p, {SEP})
  \/ StartsWith(RelPath(path, QueryRoot), RStrip(p, {SEP}) \o <<SEP>>)

\* C21: no node of the scan result is the directory named by an ignore
\* pattern that ends in a separator, or lies below that directory, whether
\* the pattern is one of the call or one of the listed patterns.
C21_DirectoryPatternExcludes ==
  pc = "done" =>
    \A p \in DirectoryPatterns :
      \A n \in Descendants(nodes) \ {nodes} : ~NamedBy(n.path, p)

\* The same for the patterns that reach the query with their separator.
C21_ListedDirectoryPatternExcludes ==
  pc = "done" =>
    \A p \in { q \in Elements(query.ignore_patterns) : EndsWith(q, <<SEP>>) } :
      \A n \in Descendants(nodes) \ {nodes} : ~NamedBy(n.path, p)

(***************************************************************************)
(* Properties of the limits of the walk                                    *)
(***************************************************************************)
\* The entries the listing of the expanded directory d passes on to the
\* tests of the limits: not excluded, and included if they are files.
Candidates(d) ==
  { pathjoin(d, Items(fs, d)[i]) : i \in 1..Len(Items(fs, d)) }
PassedOn(d, path) ==
  /\ ~should_exclude(path, BasePath(d, query, cwd), query.ignore_patterns)
  /\ isfile(fs, path) =>
       \/ query.include_patterns = <<>>
       \/ should_include(path, BasePath(d, query, cwd), query.include_patterns)

\* The files admitted, under whatever path the walk reached them.
AdmittedFiles == { realpath(fs, admitted[i]) : i \in 1..Len(admitted) }

\* C22: a file that would take the byte total over MAX_TOTAL_SIZE_BYTES is
\* skipped alone: when the walk is over and the file limit ended no loop,
\* every directory passed on in an expanded directory was entered and every
\* file passed on that fits in the final byte total was admitted.
C22_OnlyOversizeSkipped ==
  (pc = "done" /\ "file_limit" \notin events) =>
    \A d \in Elements(expanded) : \A path \in Candidates(d) :
      PassedOn(d, path) =>
        /\ isdir(fs, path) => realpath(fs, path) \in Elements(expanded)
        /\ (isfile(fs, path) /\ ~ExceedsTotalSize(stats, getsize(fs, path)))
             => realpath(fs, path) \in AdmittedFiles

\* A file was skipped for its size and a file of a subdirectory listed after
\* it was admitted.
C22_Witness ==
  /\ pc = "done"
  /\ "size_skip" \in events
  /\ "file_limit" \notin events
  /\ \E d \in Elements(expanded) : \E path \in Candidates(d) :
       /\ isfile(fs, path) /\ PassedOn(d, path)
       /\ realpath(fs, path) \notin AdmittedFiles
       /\ \E i \in 1..Len(admitted) :
            /\ dirname(dirname(admitted[i])) = d
            /\ StrLess(basename(path), basename(dirname(admitted[i])))

\* C23: once MAX_FILES files are admitted, no step of the walk makes a
\* further call of _scan_directory that lists a directory.
C23_NoDirectoryAfterLimit ==
  [][FileLimitReached(stats) => expanded' = expanded]_vars

\* The walk itself never raises, whatever the limits did.
ScanNeverRaises == pc = "raised" => stack = <<>> /\ expanded = <<>>

(***************************************************************************)
(* Properties of the token string                                          *)
(***************************************************************************)
\* The widest k form below 1000.0.
WidestThousands == << "9", "9", "9", ".", "9", "k" >>

\* C24: a count below 1,000 is printed as it is, a count from 1,000 to
\* below 1,000,000 with one decimal and the suffix k, its value below 1000.0,
\* and a count from 1,000,000 on with one decimal and the suffix M.
C24_AbbreviatedFromThresholds ==
  formatted_tokens # NotFormatted =>
    /\ token_total < 1000 => formatted_tokens = IntToStr(token_total)
    /\ (token_total >= 1000 /\ token_total < 1000000) =>
         /\ formatted_tokens = OneDecimal(token_total, 1000) \o <<"k">>
         /\ Len(formatted_tokens) <= Len(WidestThousands)
    /\ token_total >= 1000000 =>
         formatted_tokens = OneDecimal(token_total, 1000000) \o <<"M">>

\* The same with the thresholds themselves and the counts that round up to
\* 1000.0k left out.
TokensAbbreviatedAboveThresholds ==
  formatted_tokens # NotFormatted =>
    /\ token_total <= 1000 => formatted_tokens = IntToStr(token_total)
    /\ (token_total > 1000 /\ token_total < 999950) =>
         /\ formatted_tokens = OneDecimal(token_total, 1000) \o <<"k">>
         /\ Len(formatted_tokens) <= Len(WidestThousands)
    /\ token_total > 1000000 =>
         formatted_tokens = OneDecimal(token_total, 1000000) \o <<"M">>

(***************************************************************************)
(* Properties of the entries that cannot be read                           *)
(***************************************************************************)
\* The expanded directories whose listing raised PermissionError.
DeniedDirectories == { d \in Elements(expanded) : ListDenied(fs, d) }

\* C25: the walk does not raise once it has begun, an unreadable directory is
\* a node without children and, the file limit having ended no loop, every
\* entry passed on in the directory of an unreadable directory or of an
\* unreadable file was processed: the directories entered, the files that
\* fit in the final byte total admitted.
C25_DeniedDirectorySkipped ==
  /\ expanded # <<>> => pc # "raised"
  /\ pc = "done" =>
       /\ nodes.type = "directory"
       /\ \A n \in DirsUnder(nodes) :
            ListDenied(fs, n.path) => n.children = <<>> /\ n.file_count = 0
       /\ "file_limit" \notin events =>
            \A d \in Elements(expanded) : 
              (\E path \in Candidates(d) :
                 \/ isdir(fs, path) /\ ListDenied(fs, path)
                 \/ isfile(fs, path) /\ ~fs[realpath(fs, path)].readable) =>
              \A path \in Candidates(d) :
                PassedOn(d, path) =>
                  /\ isdir(fs, path) => realpath(fs, path) \in Elements(expanded)
                  /\ (isfile(fs, path) /\ ~ExceedsTotalSize(stats, getsize(fs, path)))
                       => realpath(fs, path) \in AdmittedFiles

\* The listing of a directory was refused, and the unreadable file listed
\* after it in the same directory was admitted.
C25_Witness ==
  /\ pc = "done"
  /\ "file_limit" \notin events
  /\ \E d \in DeniedDirectories :
       \E i \in 1..Len(admitted) :
         /\ dirname(admitted[i]) = dirname(d)
         /\ StrLess(basename(d), basename(admitted[i]))
         /\ ~fs[realpath(fs, admitted[i])].readable

(***************************************************************************)
(* Properties of the module-level state                                    *)
(***************************************************************************)
\* C26: whatever invocations the process has made, both default lists have
\* the entries they had when their modules were imported.
C26_DefaultsAsImported ==
  /\ script_defaults = ImportDefaults
  /\ package_defaults = ImportDefaults

\* The list parse_query.py imports is never changed.
PackageDefaultsAsImported == package_defaults = ImportDefaults

(***************************************************************************)
(* Properties of the cleanup among several invocations                     *)
(***************************************************************************)
\* C27: the local source is never removed, and the directory of every
\* invocation that has cloned and not yet cleaned up is on the disk with
\* its file, whatever the other invocations have done.
C27_CleanupScoped ==
  /\ LocalSourcePaths \subseteq disk
  /\ \A id \in InvocationIds :
       phase[id].state = "cloned" =>
         /\ ClonePath(phase[id].local_path) \in disk
         /\ pathjoin(ClonePath(phase[id].local_path), N_a) \in disk

\* The local source is never removed.
LocalSourceKept == LocalSourcePaths \subseteq disk

(***************************************************************************)
(* Properties of the counts of the tree                                    *)
(***************************************************************************)
\* The lines of the rendered tree that are lines of files.
FileLines == SelectSeq(TreeLines, LAMBDA l : l # <<>> /\ l[Len(l)] # SEP)

\* C28: in the tree the walk returned, every directory's file_count is the
\* number of file nodes below it, its size the sum of their sizes and its
\* dir_count the number of directory nodes strictly below it; the root's
\* file_count and size are the walk's counters, and the summary's "Files
\* analyzed" is the number of file lines of the rendered tree.
C28_CountsMatchTree ==
  /\ Walked =>
       /\ \A d \in DirsUnder(nodes) :
            /\ d.file_count = Cardinality(FilesUnder(d))
            /\ d.size = SumOfSizes(FilesUnder(d))
            /\ d.dir_count = Cardinality(DirsUnder(d) \ {d})
       /\ nodes.file_count = stats.total_files
       /\ nodes.size = stats.total_size
  /\ pc = "done" =>
       Contains(summary, FilesAnalyzedPrefix \o IntToStr(Len(FileLines)) \o <<NL>>)

\* The tree has files at two levels and a directory below a directory.
C28_Witness ==
  /\ pc = "done"
  /\ nodes.file_count >= 2
  /\ nodes.dir_count >= 2
  /\ \E d \in DirsUnder(nodes) \ {nodes} : d.file_count >= 1 /\ d.dir_count >= 1
  /\ \E n \in FilesUnder(nodes) : dirname(n.path) = nodes.path

====
